---- MODULE Spec2Model ----
(***************************************************************************)
(* A model of the Dutch_Law_MCP scraping pipeline and category classifier. *)
(*                                                                         *)
(*   backend/src/models/wetten_parser.py   WettenParser (fetch, normalize) *)
(*   src/models/law_model.py               MCPLaw                          *)
(*   src/test_legal_assistant.py           LegalAssistant (classifier)     *)
(*   backend/src/models/wetten_parser.py   WettenParser.search_laws        *)
(*                                                                         *)
(* Text is modelled as TLA+ strings; the string functions of the code      *)
(* (lower, strip, substring membership, the regular expressions) are       *)
(* computed character by character.                                        *)
(***************************************************************************)
EXTENDS Integers, Sequences, FiniteSets, TLC

VARIABLES
    \* ---- Fetcher: a WettenParser and its calls of _make_request /
    \* fetch_law_by_bwb_id, one at a time
    cache_dir,    \* self.cache_dir
    fetched,      \* identifier -> the markup its first successful fetch returned
    fpc,          \* position of the call: idle, get, sleep, returned, raised
    caller,       \* the entry point the caller used
    url,          \* the URL requested
    max_retries,  \* the max_retries argument of _make_request
    attempt,      \* the loop variable of _make_request
    issued,       \* number of session.get calls issued so far
    sleeps,       \* number of time.sleep(1) calls made so far
    outcomes,     \* what the network answered to each request, in order
    result,       \* the value returned to the caller (None: <<>>)
    mrExc,        \* the exception that left _make_request
    exc,          \* the exception the caller of the entry point received
    \* ---- Date parsing: one call of _parse_dutch_date
    dpc,          \* idle, parsed
    calDate,      \* the calendar date written down: <<year, month, day>>
    dateFormat,   \* the literal format it was written in
    dateText,     \* the text handed to _parse_dutch_date
    parsed,       \* what _parse_dutch_date returned
    \* ---- Normalizer: one call of parse_law_to_mcp, or of MCPLaw(...)
    npc,          \* idle, done, raised
    nop,          \* the operation called
    nin,          \* its arguments, and what the network and the markup held
    nrequests,    \* the URLs it requested, in order
    doc,          \* the MCPLaw it returned
    \* ---- Category classifier: classify, then expand
    cpc,          \* idle, classified, expanded
    situation,    \* the text handed to _identify_relevant_categories
    tagsIn,       \* the set handed to _expand_categories, as it was at the call
    categories,   \* that set object, as it is now
    expanded,     \* the set _expand_categories returned
    rounds,       \* how many times in a row _expand_categories was applied
    \* ---- Search adapter: one call of search_laws
    spc,          \* idle, done, raised
    sin,          \* its arguments, and what the network and the markup held
    network,      \* the URLs it requested, in order
    results,      \* the list it returned
    \* ---- Domain inference: one call of _infer_legal_domain or of
    \* _determine_law_type
    inferCall,    \* the function called and the title it was given (None: <<>>)
    inferred,     \* the domain it returned
    \* ---- Legal assistant: one call of analyze_situation
    apc,          \* idle, done
    ain,          \* the situation, and what the network answered
    analysis,     \* the result it returned
    \* ---- Session: one LegalAssistant and its WettenParser over several
    \* calls
    tables,       \* their tables: self.category_keywords, self.related_categories,
                  \* self.law_categories, self.common_laws
    held,         \* the Documents earlier calls returned, as they were returned
    log           \* the calls so far: operation, argument, value returned

fetchVars == <<cache_dir, fetched, fpc, caller, url, max_retries, attempt, issued, sleeps,
               outcomes, result, mrExc, exc>>

dateVars == <<dpc, calDate, dateFormat, dateText, parsed>>

normVars == <<npc, nop, nin, nrequests, doc>>

clsVars == <<cpc, situation, tagsIn, categories, expanded, rounds>>

searchVars == <<spc, sin, network, results>>

inferVars == <<inferCall, inferred>>

assistVars == <<apc, ain, analysis>>

sessionVars == <<tables, held, log>>

vars == <<fetchVars, dateVars, normVars, clsVars, searchVars, inferVars,
          assistVars, sessionVars>>

\* Each component leaves the state of the others alone.
FetchFrame ==
    UNCHANGED <<dateVars, normVars, clsVars, searchVars, inferVars, assistVars, sessionVars>>
DateFrame ==
    UNCHANGED <<fetchVars, normVars, clsVars, searchVars, inferVars, assistVars, sessionVars>>
NormFrame ==
    UNCHANGED <<fetchVars, dateVars, clsVars, searchVars, inferVars, assistVars, sessionVars>>
ClsFrame ==
    UNCHANGED <<fetchVars, dateVars, normVars, searchVars, inferVars, assistVars, sessionVars>>
SearchFrame ==
    UNCHANGED <<fetchVars, dateVars, normVars, clsVars, inferVars, assistVars, sessionVars>>
AssistFrame ==
    UNCHANGED <<fetchVars, dateVars, normVars, clsVars, searchVars, inferVars,
                sessionVars>>
SessionFrame ==
    UNCHANGED <<fetchVars, dateVars, normVars, clsVars, searchVars, inferVars,
                assistVars>>
InferFrame ==
    UNCHANGED <<fetchVars, dateVars, normVars, clsVars, searchVars, assistVars, sessionVars>>

-----------------------------------------------------------------------------
(* Optional values: Python's None and "no element found".                  *)

None == <<>>
Some(x) == <<x>>

\* dict[key] = value
Put(m, key, value) ==
    [k \in DOMAIN m \cup {key} |-> IF k = key THEN value ELSE m[k]]

-----------------------------------------------------------------------------
(* Strings.                                                                *)

\* s[i] as a one-character string; "" outside the string.
At(s, i) == IF 1 <= i /\ i <= Len(s) THEN SubSeq(s, i, i) ELSE ""

\* Python's s[i-1:j] (1-based, inclusive), clipped to the string.
Slice(s, i, j) ==
    LET lo == IF i < 1 THEN 1 ELSE i
        hi == IF j > Len(s) THEN Len(s) ELSE j
    IN  IF lo > hi THEN "" ELSE SubSeq(s, lo, hi)

StartsWith(s, p) == Len(p) <= Len(s) /\ Slice(s, 1, Len(p)) = p

\* Python's `sub in s`.
Contains(s, sub) ==
    \E i \in 1..(Len(s) - Len(sub) + 1) : Slice(s, i, i + Len(sub) - 1) = sub

\* What Python's str.lower() does to the letters of the model's texts.
ToLower ==
    [A |-> "a", B |-> "b", C |-> "c", D |-> "d", E |-> "e", F |-> "f",
     G |-> "g", H |-> "h", I |-> "i", J |-> "j", K |-> "k", L |-> "l",
     M |-> "m", N |-> "n", O |-> "o", P |-> "p", Q |-> "q", R |-> "r",
     S |-> "s", T |-> "t", U |-> "u", V |-> "v", W |-> "w", X |-> "x",
     Y |-> "y", Z |-> "z"]

\* ... and str.upper().
ToUpper ==
    [a |-> "A", b |-> "B", c |-> "C", d |-> "D", e |-> "E", f |-> "F",
     g |-> "G", h |-> "H", i |-> "I", j |-> "J", k |-> "K", l |-> "L",
     m |-> "M", n |-> "N", o |-> "O", p |-> "P", q |-> "Q", r |-> "R",
     s |-> "S", t |-> "T", u |-> "U", v |-> "V", w |-> "W", x |-> "X",
     y |-> "Y", z |-> "Z"]

UpperLetters == DOMAIN ToLower
LowerLetters == DOMAIN ToUpper

LowerChar(c) == IF c \in UpperLetters THEN ToLower[c] ELSE c
UpperChar(c) == IF c \in LowerLetters THEN ToUpper[c] ELSE c

RECURSIVE Lower(_)
\* Python's str.lower().
Lower(s) == IF s = "" THEN "" ELSE LowerChar(At(s, 1)) \o Lower(Slice(s, 2, Len(s)))

RECURSIVE Upper(_)
\* Python's str.upper().
Upper(s) == IF s = "" THEN "" ELSE UpperChar(At(s, 1)) \o Upper(Slice(s, 2, Len(s)))

\* The character classes of the regular expressions: \d, \s, [a-zA-Z].
Digits == {"0", "1", "2", "3", "4", "5", "6", "7", "8", "9"}
Spaces == {" ", "\t", "\n"}

InClass(c, cls) ==
    CASE cls = "\\d" -> c \in Digits
      [] cls = "\\s" -> c \in Spaces
      [] cls = "[a-zA-Z]" -> c \in UpperLetters \/ c \in LowerLetters

IsDigit(c) == InClass(c, "\\d")
IsSpace(c) == InClass(c, "\\s")

AllDigits(s, i, j) == j <= Len(s) /\ \A k \in i..j : IsDigit(At(s, k))

RECURSIVE SpanEnd(_, _, _)
\* The last index of the run of characters of class cls that starts at i
\* (i - 1 when the character at i is not of the class): what a greedy
\* cls* consumes.
SpanEnd(s, i, cls) ==
    IF i <= Len(s) /\ InClass(At(s, i), cls) THEN SpanEnd(s, i + 1, cls) ELSE i - 1

\* Python's str.strip().
Strip(s) ==
    LET keep == {i \in 1..Len(s) : ~IsSpace(At(s, i))}
    IN  IF keep = {} THEN ""
        ELSE SubSeq(s, CHOOSE i \in keep : \A j \in keep : i <= j,
                       CHOOSE i \in keep : \A j \in keep : j <= i)

\* Python's str.zfill(2).
ZFill2(s) == IF Len(s) < 2 THEN "0" \o s ELSE s

MinOf(S) == CHOOSE i \in S : \A j \in S : i <= j

-----------------------------------------------------------------------------
(* Fetcher.                                                                *)

BASE_URL == "https://wetten.overheid.nl"
SEARCH_URL == BASE_URL \o "/zoeken"

DefaultMaxRetries == 3

\* Largest max_retries a caller of _make_request passes in the model.
MaxRetryBound == 3
RetryBounds == (-1)..MaxRetryBound

FetchIds == {"BWBR0001840", "0001840", "BWBR9999999"}

\* What one session.get can end in: a response with a status, or a
\* network-level exception.
Statuses == {200, 204, 404, 500}
Outcomes ==
    [kind : {"response"}, status : Statuses]
        \cup [kind : {"Timeout", "ConnectionError"}, status : {0}]

\* response.raise_for_status(): HTTPError for a 4xx or 5xx status.
RaisesForStatus(o) == o.kind = "response" /\ 400 <= o.status /\ o.status < 600

\* The try block of _make_request raises a requests.RequestException.
AttemptFails(o) == o.kind # "response" \/ RaisesForStatus(o)

\* The exception object the k-th request raised.
ExceptionOf(o, k) ==
    [type |-> IF o.kind = "response" THEN "HTTPError" ELSE o.kind,
     status |-> o.status, attempt |-> k]

NoExc == [type |-> "none"]

\* response.text of the k-th request to u.
Body(u, k) == [url |-> u, serial |-> k]

IsLastAttemptOffByOne(a, n) == a = n

\* `if attempt == max_retries - 1: raise`
IsLastAttempt(a, n) == a = n - 1

CanonicalId(bwb_id) ==
    IF StartsWith(bwb_id, "BWBR") THEN bwb_id ELSE "BWBR" \o bwb_id

BwbIdOfUrl(u) == Slice(u, Len(BASE_URL) + 2, Len(u))

FetchErrorWithoutCause(u, e) ==
    [type |-> "ValueError", bwb_id |-> BwbIdOfUrl(u), cause |-> NoExc]

\* `raise ValueError(f"Failed to fetch law with BWB ID {bwb_id}: {e}")`
FetchError(u, e) ==
    [type |-> "ValueError", bwb_id |-> BwbIdOfUrl(u), cause |-> e]

\* What the caller of the entry point receives when e leaves _make_request.
Propagated(c, u, e) ==
    IF c = "fetch_law_by_bwb_id" THEN FetchError(u, e) ELSE e

\* WettenParser(cache_dir = "cache"), before its first call.
FetchInit ==
    /\ cache_dir = Some("cache")
    /\ fetched = <<>>
    /\ fpc = "idle"
    /\ caller = "none"
    /\ url = ""
    /\ max_retries = DefaultMaxRetries
    /\ attempt = 0
    /\ issued = 0
    /\ sleeps = 0
    /\ outcomes = <<>>
    /\ result = None
    /\ mrExc = NoExc
    /\ exc = NoExc

\* Entering `for attempt in range(max_retries)`: an empty range falls
\* through to the end of the function, which returns None.
EnterLoop(n) ==
    /\ attempt' = 0
    /\ fpc' = IF 0 < n THEN "get" ELSE "returned"
    /\ issued' = 0
    /\ sleeps' = 0
    /\ outcomes' = <<>>
    /\ result' = None
    /\ mrExc' = NoExc
    /\ exc' = NoExc
    /\ UNCHANGED <<cache_dir, fetched>>

\* A caller (search_laws) calls _make_request(u, max_retries = n).
CallMakeRequest(u, n) ==
    /\ fpc = "idle"
    /\ caller' = "_make_request"
    /\ url' = u
    /\ max_retries' = n
    /\ EnterLoop(n)
    /\ FetchFrame

\* A caller calls fetch_law_by_bwb_id(bwb_id).
CallFetchLawByBwbId(bwb_id) ==
    /\ fpc = "idle"
    /\ caller' = "fetch_law_by_bwb_id"
    /\ url' = BASE_URL \o "/" \o CanonicalId(bwb_id)
    /\ max_retries' = DefaultMaxRetries
    /\ EnterLoop(DefaultMaxRetries)
    /\ FetchFrame

\* One pass through the try block: the request is issued and answered by o.
Attempt(o) ==
    /\ fpc = "get"
    /\ issued' = issued + 1
    /\ outcomes' = Append(outcomes, o)
    /\ IF ~AttemptFails(o)
         THEN /\ fpc' = "returned"
              /\ result' = Some(Body(url, issued + 1))
              /\ UNCHANGED <<mrExc, exc>>
         ELSE IF IsLastAttempt(attempt, max_retries)
         THEN /\ fpc' = "raised"
              /\ mrExc' = ExceptionOf(o, issued + 1)
              /\ exc' = Propagated(caller, url, ExceptionOf(o, issued + 1))
              /\ UNCHANGED result
         ELSE /\ fpc' = "sleep"
              /\ UNCHANGED <<result, mrExc, exc>>
    /\ UNCHANGED <<cache_dir, fetched, caller, url, max_retries, attempt, sleeps>>
    /\ FetchFrame

\* time.sleep(1), then the next iteration of the loop (or its end).
Sleep ==
    /\ fpc = "sleep"
    /\ sleeps' = sleeps + 1
    /\ attempt' = attempt + 1
    /\ fpc' = IF attempt + 1 < max_retries THEN "get" ELSE "returned"
    /\ UNCHANGED <<cache_dir, fetched, caller, url, max_retries, issued,
                   outcomes, result, mrExc, exc>>
    /\ FetchFrame

\* The call is over (it returned or raised) and the parser is ready for its
\* next call; the locals of the call are gone. Nothing of the call is kept
\* in the parser: self.cache_dir is only ever assigned, in __init__. The
\* model keeps, for the fetches, the markup each identifier's first
\* successful fetch returned.
Return ==
    /\ fpc \in {"returned", "raised"}
    /\ fpc' = "idle"
    /\ fetched' =
        IF /\ fpc = "returned"
           /\ caller = "fetch_law_by_bwb_id"
           /\ BwbIdOfUrl(url) \notin DOMAIN fetched
            THEN Put(fetched, BwbIdOfUrl(url), result[1])
            ELSE fetched
    /\ caller' = "none"
    /\ url' = ""
    /\ max_retries' = DefaultMaxRetries
    /\ attempt' = 0
    /\ issued' = 0
    /\ sleeps' = 0
    /\ outcomes' = <<>>
    /\ result' = None
    /\ mrExc' = NoExc
    /\ exc' = NoExc
    /\ UNCHANGED cache_dir
    /\ FetchFrame

FetchNext ==
    \/ \E n \in RetryBounds : CallMakeRequest(SEARCH_URL, n)
    \/ \E id \in FetchIds : CallFetchLawByBwbId(id)
    \/ \E o \in Outcomes : Attempt(o)
    \/ Sleep
    \/ Return

-----------------------------------------------------------------------------
(* The lookup tables of WettenParser.                                      *)

\* self.dutch_months
dutch_months ==
    [januari |-> "01", februari |-> "02", maart |-> "03", april |-> "04",
     mei |-> "05", juni |-> "06", juli |-> "07", augustus |-> "08",
     september |-> "09", oktober |-> "10", november |-> "11",
     december |-> "12"]

\* self.common_laws
common_laws ==
    [BWBR0005537 |->
        [name_of_law |-> "Algemene wet bestuursrecht",
         citation_title |-> "Awb",
         date_of_entry_into_force |-> "1994-01-01",
         regulatory_authority |-> "Ministerie van Justitie en Veiligheid",
         legal_domain |-> "Administrative Law",
         identification_number |-> "BWBR0005537"],
     BWBR0005291 |->
        [name_of_law |-> "Burgerlijk Wetboek",
         citation_title |-> "BW",
         date_of_entry_into_force |-> "1992-01-01",
         regulatory_authority |-> "Ministerie van Justitie en Veiligheid",
         legal_domain |-> "Civil Law",
         identification_number |-> "BWBR0005291"],
     BWBR0001854 |->
        [name_of_law |-> "Wetboek van Strafrecht",
         citation_title |-> "Sr",
         date_of_entry_into_force |-> "1886-09-01",
         regulatory_authority |-> "Ministerie van Justitie en Veiligheid",
         legal_domain |-> "Criminal Law",
         identification_number |-> "BWBR0001854"],
     BWBR0001840 |->
        [name_of_law |-> "Grondwet",
         citation_title |-> "Gw",
         date_of_entry_into_force |-> "1815-03-24",
         regulatory_authority |-> "Ministerie van Binnenlandse Zaken en Koninkrijksrelaties",
         legal_domain |-> "Constitutional Law",
         identification_number |-> "BWBR0001840"],
     BWBR0009405 |->
        [name_of_law |-> "Wet op de arbeidsovereenkomst",
         citation_title |-> "BW7",
         date_of_entry_into_force |-> "1907-07-13",
         regulatory_authority |-> "Ministerie van Sociale Zaken en Werkgelegenheid",
         legal_domain |-> "Employment Law",
         identification_number |-> "BWBR0009405"],
     BWBR0006502 |->
        [name_of_law |-> "Algemene wet gelijke behandeling",
         citation_title |-> "AWGB",
         date_of_entry_into_force |-> "1994-09-01",
         regulatory_authority |-> "Ministerie van Binnenlandse Zaken en Koninkrijksrelaties",
         legal_domain |-> "Equal Treatment Law",
         identification_number |-> "BWBR0006502"]]

-----------------------------------------------------------------------------
(* Date parsing: _parse_dutch_date.  Each Search operator is re.search on  *)
(* one of its patterns: the match at the leftmost position that has one,   *)
(* None when there is none.                                                *)

\* (\d{1,2})\s+([a-zA-Z]+)\s+(\d{4}) anchored at i, the day d digits long.
\* The classes \d, \s and [a-zA-Z] are disjoint, so each greedy + can only
\* match the whole run.
DayNameYearAt(t, i, d) ==
    IF ~AllDigits(t, i, i + d - 1) THEN None
    ELSE LET s1 == SpanEnd(t, i + d, "\\s") IN
    IF s1 < i + d THEN None
    ELSE LET l == SpanEnd(t, s1 + 1, "[a-zA-Z]") IN
    IF l < s1 + 1 THEN None
    ELSE LET s2 == SpanEnd(t, l + 1, "\\s") IN
    IF s2 < l + 1 \/ ~AllDigits(t, s2 + 1, s2 + 4) THEN None
    ELSE Some([g1 |-> SubSeq(t, i, i + d - 1),
               g2 |-> SubSeq(t, s1 + 1, l),
               g3 |-> SubSeq(t, s2 + 1, s2 + 4)])

\* \d{1,2} is greedy: two digits are tried before one.
DayNameYearFrom(t, i) ==
    IF DayNameYearAt(t, i, 2) # None THEN DayNameYearAt(t, i, 2)
    ELSE DayNameYearAt(t, i, 1)

SearchDayNameYear(t) ==
    LET hits == {i \in 1..Len(t) : DayNameYearFrom(t, i) # None}
    IN  IF hits = {} THEN None ELSE DayNameYearFrom(t, MinOf(hits))

\* a digits, "-", b digits, "-", c digits, anchored at i.
DashedAt(t, i, a, b, c) ==
    /\ AllDigits(t, i, i + a - 1)
    /\ At(t, i + a) = "-"
    /\ AllDigits(t, i + a + 1, i + a + b)
    /\ At(t, i + a + b + 1) = "-"
    /\ AllDigits(t, i + a + b + 2, i + a + b + c + 1)

SearchDashed(t, a, b, c) ==
    LET hits == {i \in 1..Len(t) : DashedAt(t, i, a, b, c)}
    IN  IF hits = {} THEN None
        ELSE LET i == MinOf(hits)
             IN  Some([g1 |-> SubSeq(t, i, i + a - 1),
                       g2 |-> SubSeq(t, i + a + 1, i + a + b),
                       g3 |-> SubSeq(t, i + a + b + 2, i + a + b + c + 1)])

\* BWBR\d+ : group(0) of the leftmost match.
SearchBwbId(t) ==
    LET hits == {i \in 1..Len(t) :
                    Slice(t, i, i + 3) = "BWBR" /\ AllDigits(t, i + 4, i + 4)}
    IN  IF hits = {} THEN None
        ELSE LET i == MinOf(hits)
             IN  Some(SubSeq(t, i, SpanEnd(t, i + 4, "\\d")))

\* self.dutch_months.get(name)
MonthNumber(name) ==
    IF name \in DOMAIN dutch_months THEN Some(dutch_months[name]) ELSE None

DayMonthYearUnswapped(m) == m.g1 \o "-" \o m.g2 \o "-" \o m.g3

\* f"{date_match.group(3)}-{date_match.group(2)}-{date_match.group(1)}"
DayMonthYearToIso(m) == m.g3 \o "-" \o m.g2 \o "-" \o m.g1

_parse_dutch_date(text) ==
    LET m1 == SearchDayNameYear(text)
        month == IF m1 = None THEN None ELSE MonthNumber(Lower(m1[1].g2))
        m2 == SearchDashed(text, 2, 2, 4)
        m3 == SearchDashed(text, 4, 2, 2)
        bwb == SearchBwbId(text)
    IN  IF m1 # None /\ month # None
            THEN Some(m1[1].g3 \o "-" \o month[1] \o "-" \o ZFill2(m1[1].g1))
        ELSE IF m2 # None THEN Some(DayMonthYearToIso(m2[1]))
        ELSE IF m3 # None
            THEN Some(m3[1].g1 \o "-" \o m3[1].g2 \o "-" \o m3[1].g3)
        ELSE IF bwb # None /\ bwb[1] \in DOMAIN common_laws
            THEN Some(common_laws[bwb[1]].date_of_entry_into_force)
        ELSE None

\* Calendar dates and the three literal formats they are written in.
Years == {1815, 1994, 2000}

IsLeap(y) == (y % 4 = 0 /\ y % 100 # 0) \/ y % 400 = 0

DaysInMonth(y, m) ==
    IF m = 2 THEN (IF IsLeap(y) THEN 29 ELSE 28)
    ELSE IF m \in {4, 6, 9, 11} THEN 30 ELSE 31

CalendarDates ==
    {d \in Years \X (1..12) \X (1..31) : d[3] <= DaysInMonth(d[1], d[2])}

Digit(n) == At("0123456789", n + 1)
Pad2(n) == Digit(n \div 10) \o Digit(n % 10)
Pad4(n) == Pad2(n \div 100) \o Pad2(n % 100)

Unpadded(n) == IF n < 10 THEN Digit(n) ELSE Pad2(n)

MonthNames ==
    <<"januari", "februari", "maart", "april", "mei", "juni", "juli",
      "augustus", "september", "oktober", "november", "december">>

Capitalize(s) == Upper(At(s, 1)) \o Slice(s, 2, Len(s))

\* YYYY-MM-DD
Iso(d) == Pad4(d[1]) \o "-" \o Pad2(d[2]) \o "-" \o Pad2(d[3])

DateFormats == {"DD month YYYY", "D Month YYYY", "DD-MM-YYYY", "YYYY-MM-DD"}

Written(d, f) ==
    CASE f = "DD month YYYY" ->
            Pad2(d[3]) \o " " \o MonthNames[d[2]] \o " " \o Pad4(d[1])
      [] f = "D Month YYYY" ->
            Unpadded(d[3]) \o " " \o Capitalize(MonthNames[d[2]]) \o " " \o Pad4(d[1])
      [] f = "DD-MM-YYYY" ->
            Pad2(d[3]) \o "-" \o Pad2(d[2]) \o "-" \o Pad4(d[1])
      [] f = "YYYY-MM-DD" -> Iso(d)

DateInit ==
    /\ dpc = "idle"
    /\ calDate = <<0, 0, 0>>
    /\ dateFormat = ""
    /\ dateText = ""
    /\ parsed = None

\* A date written in one of the formats is parsed.
ParseWrittenDate(d, f) ==
    /\ dpc = "idle"
    /\ dpc' = "parsed"
    /\ calDate' = d
    /\ dateFormat' = f
    /\ dateText' = Written(d, f)
    /\ parsed' = _parse_dutch_date(Written(d, f))
    /\ DateFrame

DateNext ==
    /\ dpc = "idle"
    /\ \E d \in CalendarDates, f \in DateFormats : ParseWrittenDate(d, f)

-----------------------------------------------------------------------------
(* Markup.  A page is what BeautifulSoup finds in it: the text of the      *)
(* first element of each metadata class (None when there is none) and the  *)
(* tree of article, chapter and section containers.  A container holds the *)
(* text of its number, title and text sub-elements (None when missing),    *)
(* its paragraphs (leden) and the containers nested in it.                 *)

Lid(n, x) == [number |-> n, text |-> x]

Artikel(n, t, x, leden) ==
    [cls |-> "wet-artikel", number |-> n, title |-> t, text |-> x,
     leden |-> leden, children |-> <<>>]

Afdeling(n, t, ch) ==
    [cls |-> "wet-afdeling", number |-> n, title |-> t, text |-> None,
     leden |-> <<>>, children |-> ch]

Hoofdstuk(n, t, ch) ==
    [cls |-> "wet-hoofdstuk", number |-> n, title |-> t, text |-> None,
     leden |-> <<>>, children |-> ch]

EmptyPage ==
    [title |-> None, citation |-> None, inwerkingtreding |-> None,
     beheerder |-> None, body |-> <<>>]

\* find_all(..., recursive=False) would look at the top-level containers only.
TopLevelOnly(elems) == elems

RECURSIVE Descendants(_)
\* The containers of a sequence of trees, in document order.
Descendants(elems) ==
    IF elems = <<>> THEN <<>>
    ELSE <<Head(elems)>> \o Descendants(Head(elems).children)
            \o Descendants(Tail(elems))

\* find_all('div', class_=cls)
FindAll(elems, cls) == SelectSeq(Descendants(elems), LAMBDA e : e.cls = cls)

MapSeq(s, F(_)) == [i \in 1..Len(s) |-> F(s[i])]

-----------------------------------------------------------------------------
(* Document model: MCPLaw.                                                 *)

required_metadata ==
    {"name_of_law", "citation_title", "date_of_entry_into_force",
     "regulatory_authority", "legal_domain", "identification_number"}

content_keys == {"articles", "chapters", "sections"}

\* `if key not in mapping: mapping[key] = default`, for every key.
SetDefaults(m, keys, default) ==
    [k \in DOMAIN m \cup keys |-> IF k \in DOMAIN m THEN m[k] ELSE default]

MCPLawUnvalidated(metadata, content) ==
    [metadata |-> metadata, content |-> content]

\* MCPLaw(metadata=..., content=...): the constructor and __post_init__.
MCPLaw(metadata, content) ==
    [metadata |-> SetDefaults(metadata, required_metadata, "Unknown"),
     content |-> SetDefaults(content, content_keys, <<>>)]

-----------------------------------------------------------------------------
(* HTML Normalizer: parse_law_to_mcp and what it calls.                    *)

_get_default_metadata_unidentified(bwb_id) ==
    IF bwb_id \in DOMAIN common_laws THEN common_laws[bwb_id]
    ELSE [name_of_law |-> "Unknown Law",
          citation_title |-> "Unknown Law",
          date_of_entry_into_force |-> "Unknown",
          regulatory_authority |-> "Ministerie van Justitie en Veiligheid",
          legal_domain |-> "Other"]

_get_default_metadata(bwb_id) ==
    IF bwb_id \in DOMAIN common_laws THEN common_laws[bwb_id]
    ELSE [name_of_law |-> "Unknown Law",
          citation_title |-> "Unknown",
          date_of_entry_into_force |-> "Unknown",
          regulatory_authority |-> "Unknown",
          legal_domain |-> "Unknown",
          identification_number |-> bwb_id]

\* any(term in lowered for term in terms)
AnyIn(terms, lowered) == \E term \in terms : Contains(lowered, term)

\* The first two checks in the opposite order.
_infer_legal_domain_civil_first(title) ==
    LET title_lower == Lower(title)
    IN  IF AnyIn({"burgerlijk", "vermogen", "verbintenis"}, title_lower)
            THEN "Civil Law"
        ELSE IF AnyIn({"strafrecht", "strafvordering", "straffen"}, title_lower)
            THEN "Criminal Law"
        ELSE IF AnyIn({"grondwet", "constitutie"}, title_lower)
            THEN "Constitutional Law"
        ELSE IF AnyIn({"belasting", "fiscaal"}, title_lower)
            THEN "Tax Law"
        ELSE IF AnyIn({"bestuurs", "algemene wet"}, title_lower)
            THEN "Administrative Law"
        ELSE "Other"

_infer_legal_domain(title) ==
    LET title_lower == Lower(title)
    IN  IF AnyIn({"strafrecht", "strafvordering", "straffen"}, title_lower)
            THEN "Criminal Law"
        ELSE IF AnyIn({"burgerlijk", "vermogen", "verbintenis"}, title_lower)
            THEN "Civil Law"
        ELSE IF AnyIn({"grondwet", "constitutie"}, title_lower)
            THEN "Constitutional Law"
        ELSE IF AnyIn({"belasting", "fiscaal"}, title_lower)
            THEN "Tax Law"
        ELSE IF AnyIn({"bestuurs", "algemene wet"}, title_lower)
            THEN "Administrative Law"
        ELSE "Other"

\* The law type as parse_metadata's inference would give it.
_determine_law_type_by_title(law_name) == _infer_legal_domain(law_name)

_determine_law_type(law_name) ==
    LET law_name_lower == Lower(law_name)
    IN  IF AnyIn({"bestuursrecht", "vergunning", "besluit"}, law_name_lower)
            THEN "Administrative Law"
        ELSE IF AnyIn({"burgerlijk", "civiel", "contract"}, law_name_lower)
            THEN "Civil Law"
        ELSE IF AnyIn({"strafrecht", "strafbaar", "misdrijf"}, law_name_lower)
            THEN "Criminal Law"
        ELSE IF AnyIn({"grondwet", "constitutioneel"}, law_name_lower)
            THEN "Constitutional Law"
        ELSE IF AnyIn({"arbeid", "werk", "loon"}, law_name_lower)
            THEN "Employment Law"
        ELSE IF AnyIn({"discriminatie", "gelijke behandeling"}, law_name_lower)
            THEN "Equal Treatment Law"
        ELSE "Unknown"

InferInit ==
    /\ inferCall = None
    /\ inferred = ""

\* parse_metadata calls self._infer_legal_domain(title).
InferLegalDomain(title) ==
    /\ inferCall = None
    /\ inferCall' = Some([fn |-> "_infer_legal_domain", title |-> title])
    /\ inferred' = _infer_legal_domain(title)
    /\ InferFrame

\* _extract_metadata calls self._determine_law_type(metadata["name_of_law"]).
DetermineLawType(law_name) ==
    /\ inferCall = None
    /\ inferCall' = Some([fn |-> "_determine_law_type", title |-> law_name])
    /\ inferred' = _determine_law_type(law_name)
    /\ InferFrame

\* The terms either function looks for.
Stems ==
    {"strafrecht", "strafvordering", "straffen", "burgerlijk", "vermogen",
     "verbintenis", "grondwet", "constitutie", "belasting", "fiscaal",
     "bestuurs", "algemene wet",
     "bestuursrecht", "vergunning", "besluit", "civiel", "contract",
     "strafbaar", "misdrijf", "constitutioneel", "arbeid", "werk", "loon",
     "discriminatie", "gelijke behandeling"}

\* Titles with one term (in lower and in upper case), with two terms in
\* either order, and with none.
InferenceTitles ==
    {"Wet " \o a : a \in Stems}
    \cup {Upper(a) : a \in Stems}
    \cup {"Wet " \o a \o " en " \o b : a, b \in Stems}
    \cup {"", "Wegenverkeerswet 1994", "Opiumwet"}

InferNext ==
    \/ \E title \in InferenceTitles : InferLegalDomain(title)
    \/ \E title \in InferenceTitles : DetermineLawType(title)

RECURSIVE IndexOfFrom(_, _, _)
\* The first index >= i of character c in s; 0 when there is none.
IndexOfFrom(s, c, i) ==
    IF i > Len(s) THEN 0
    ELSE IF At(s, i) = c THEN i ELSE IndexOfFrom(s, c, i + 1)

\* re.search(r'\(([^)]+)\)', t): group(1) of the leftmost match.
SearchParenthesised(t) ==
    LET hits == {i \in 1..Len(t) :
                    At(t, i) = "(" /\ IndexOfFrom(t, ")", i + 1) > i + 1}
    IN  IF hits = {} THEN None
        ELSE LET i == MinOf(hits)
             IN  Some(Slice(t, i + 1, IndexOfFrom(t, ")", i + 1) - 1))

\* The k-th statement group of the try block of _extract_metadata.
MetadataStep(k, m, page, bwb_id) ==
    CASE k = 1 ->
            IF page.title # None
                THEN Put(m, "name_of_law", Strip(page.title[1]))
                ELSE m
      [] k = 2 ->
            LET found == IF page.citation = None THEN None
                         ELSE SearchParenthesised(Strip(page.citation[1]))
            IN  IF found # None THEN Put(m, "citation_title", found[1]) ELSE m
      [] k = 3 ->
            LET date == IF page.inwerkingtreding = None THEN None
                        ELSE _parse_dutch_date(Strip(page.inwerkingtreding[1]))
            IN  IF date # None /\ date[1] # ""
                    THEN Put(m, "date_of_entry_into_force", date[1])
                    ELSE m
      [] k = 4 ->
            IF page.beheerder # None
                THEN Put(m, "regulatory_authority", Strip(page.beheerder[1]))
                ELSE m
      [] k = 5 -> Put(m, "legal_domain", _determine_law_type(m["name_of_law"]))
      [] k = 6 -> Put(m, "identification_number", bwb_id)

MetadataSteps == 6

RECURSIVE RunMetadataSteps(_, _, _, _, _)
RunMetadataSteps(k, last, m, page, bwb_id) ==
    IF k > last THEN m
    ELSE RunMetadataSteps(k + 1, last, MetadataStep(k, m, page, bwb_id),
                          page, bwb_id)

\* fault = 0: no exception.  fault = k > 0: statement group k raises an
\* unexpected exception, which the except clause logs; the groups before
\* it have taken effect.
_extract_metadata(page, bwb_id, fault) ==
    RunMetadataSteps(1, IF fault = 0 THEN MetadataSteps ELSE fault - 1,
                     _get_default_metadata(bwb_id), page, bwb_id)

\* elem.text.strip() when the sub-element was found, the initial "" if not.
SubText(found) == IF found = None THEN "" ELSE Strip(found[1])

ParagraphData(lid) ==
    [number |-> SubText(lid.number), text |-> SubText(lid.text)]

ArticleDataSparse(e) ==
    LET keys == {k \in {"number", "title", "text"} : e[k] # None}
    IN  [k \in keys \cup {"paragraphs"} |->
            IF k = "paragraphs" THEN MapSeq(e.leden, ParagraphData)
            ELSE Strip(e[k][1])]

\* article_data of the first loop (the flat articles).
ArticleData(e) ==
    [number |-> SubText(e.number), title |-> SubText(e.title),
     text |-> SubText(e.text), paragraphs |-> MapSeq(e.leden, ParagraphData)]

\* article_data of the loops inside a chapter and inside a section.
NestedArticleData(e) ==
    [number |-> SubText(e.number), title |-> SubText(e.title),
     text |-> SubText(e.text)]

\* chapter_data / section_data
GroupData(e) ==
    [number |-> SubText(e.number), title |-> SubText(e.title),
     articles |-> MapSeq(FindAll(e.children, "wet-artikel"), NestedArticleData)]

Prefix(s, n) == SubSeq(s, 1, IF n < 0 THEN 0 ELSE IF n > Len(s) THEN Len(s) ELSE n)

\* fault = 0: no exception.  fault = k > 0: an unexpected exception is
\* raised while the k-th container (articles first, then chapters, then
\* sections) is processed; what was appended before it stays.
_extract_content(page, fault) ==
    LET articles == MapSeq(FindAll(page.body, "wet-artikel"), ArticleData)
        chapters == MapSeq(FindAll(page.body, "wet-hoofdstuk"), GroupData)
        sections == MapSeq(FindAll(page.body, "wet-afdeling"), GroupData)
        total == Len(articles) + Len(chapters) + Len(sections)
        kept == IF fault = 0 THEN total ELSE fault - 1
    IN  [articles |-> Prefix(articles, kept),
         chapters |-> Prefix(chapters, kept - Len(articles)),
         sections |-> Prefix(sections, kept - Len(articles) - Len(chapters))]

RequestExceptionTypes == {"HTTPError", "Timeout", "ConnectionError"}

CaughtOnlyHTTPError(e) == e.type = "HTTPError"

\* `except requests.RequestException` of parse_law_to_mcp
CaughtByParseLawToMcp(e) == e.type \in RequestExceptionTypes

NoDoc == [metadata |-> <<>>, content |-> <<>>]

NormInit ==
    /\ npc = "idle"
    /\ nop = "none"
    /\ nin = <<>>
    /\ nrequests = <<>>
    /\ doc = NoDoc

\* parse_law_to_mcp(bwb_id): one requests.get (no retry), answered by
\* in.response; the markup of a successful response is in.response.page.
\* It returns a Document (pc "done") or lets the exception through (pc
\* "raised").
parse_law_to_mcp(in) ==
    IF ~AttemptFails(in.response)
        THEN [pc |-> "done",
              doc |-> MCPLaw(_extract_metadata(in.response.page, in.bwb_id,
                                               in.metaFault),
                             _extract_content(in.response.page,
                                              in.contentFault))]
    ELSE IF CaughtByParseLawToMcp(ExceptionOf(in.response, 1))
        THEN [pc |-> "done",
              doc |-> MCPLaw(_get_default_metadata(in.bwb_id),
                             [articles |-> <<>>, chapters |-> <<>>,
                              sections |-> <<>>])]
    ELSE [pc |-> "raised", doc |-> NoDoc]

\* A caller calls parse_law_to_mcp.
ParseLawToMcp(in) ==
    /\ npc = "idle"
    /\ nop' = "parse_law_to_mcp"
    /\ nin' = in
    /\ nrequests' = <<BASE_URL \o "/" \o in.bwb_id>>
    /\ doc' = parse_law_to_mcp(in).doc
    /\ npc' = IF doc' = NoDoc THEN "raised" ELSE "done"
    /\ NormFrame

\* MCPLaw(metadata=metadata, content=content) on mappings of a caller.
ConstructMCPLaw(metadata, content) ==
    /\ npc = "idle"
    /\ npc' = "done"
    /\ nop' = "MCPLaw"
    /\ nin' = [metadata |-> metadata, content |-> content]
    /\ nrequests' = <<>>
    /\ doc' = MCPLaw(metadata, content)
    /\ NormFrame

-----------------------------------------------------------------------------
(* The inputs of the normalizer that the model explores.                   *)

Restrict(f, keys) == [k \in keys |-> f[k]]

TableIds == DOMAIN common_laws

\* Every lookup-table identifier, one unknown identifier and one without
\* the prefix.
NormalizeIds == TableIds \cup {"BWBR9999999", "0001840"}

MetaIds == {"BWBR0001840", "BWBR0005537", "BWBR9999999"}

Titles ==
    {None, Some("  Grondwet "), Some("Wegenverkeerswet 1994"), Some("Awb"),
     Some("")}

Citations == {None, Some("Citeertitel (Gw)"), Some("geen citeertitel"), Some("()")}

Authorities == {None, Some(" Ministerie van Financien ")}

DateTexts ==
    {None, Some("24 maart 1815"), Some(" 24-03-1815 "), Some("1815-03-24"),
     Some("1 foo 2000"), Some("24-03-1815, gewijzigd 5 mei 1945"),
     Some("onbekend"), Some("zie BWBR0001840"), Some("99-99-2024"), Some("")}

MetaPages ==
    {[title |-> t, citation |-> c, inwerkingtreding |-> d, beheerder |-> a,
      body |-> <<>>] :
        t \in Titles, c \in Citations, d \in DateTexts, a \in Authorities}

Artikelen ==
    {Artikel(Some(" 1 "), Some("Titel"), Some("Tekst van het artikel"),
             <<Lid(Some("1"), Some("Eerste lid"))>>),
     Artikel(None, None, None, <<>>),
     Artikel(Some("2a"), None, Some(""), <<Lid(None, None)>>)}

Opschriften == {<<None, None>>, <<Some("1.1"), Some(" Algemeen ")>>}

Afdelingen ==
    {Afdeling(o[1], o[2], ch) :
        o \in Opschriften, ch \in {<<>>} \cup {<<a>> : a \in Artikelen}}

Hoofdstukken ==
    {Hoofdstuk(o[1], o[2], ch) :
        o \in Opschriften,
        ch \in {<<>>} \cup {<<a>> : a \in Artikelen}
                \cup {<<Afdeling(None, None, <<a>>)>> : a \in Artikelen}}

Containers == Artikelen \cup Afdelingen \cup Hoofdstukken

\* Most top-level containers in a page.
MaxBlocks == 2

Bodies == UNION {[1..n -> Containers] : n \in 0..MaxBlocks}

ContentPages == {[EmptyPage EXCEPT !.body = b] : b \in Bodies}

FullPage ==
    [title |-> Some("Wet op de loonbelasting 1964"),
     citation |-> Some("(Wet LB 1964)"),
     inwerkingtreding |-> Some("1 januari 1965"),
     beheerder |-> Some("Ministerie van Financien"),
     body |-> <<Hoofdstuk(Some("I"), Some("Inleiding"),
                          <<Artikel(Some("1"), None, Some("Tekst"), <<>>)>>),
                Artikel(Some("2"), Some("Titel"), None, <<>>)>>]

Ok(status, page) == [kind |-> "response", status |-> status, page |-> page]

FailedResponses ==
    {[kind |-> o.kind, status |-> o.status, page |-> EmptyPage] :
        o \in {o \in Outcomes : AttemptFails(o)}}

Call(id, r, mf, cf) ==
    [bwb_id |-> id, response |-> r, metaFault |-> mf, contentFault |-> cf]

ContentFaults == 0..4

NormalizeInputs ==
    \* markup with none of the expected elements
    {Call(id, Ok(st, EmptyPage), 0, 0) : id \in NormalizeIds, st \in {200, 204}}
    \* the metadata elements
    \cup {Call(id, Ok(200, p), 0, 0) : id \in MetaIds, p \in MetaPages}
    \* the content tree
    \cup {Call("BWBR0001840", Ok(200, p), 0, 0) : p \in ContentPages}
    \* an unexpected exception during extraction
    \cup {Call(id, Ok(200, FullPage), mf, cf) :
            id \in MetaIds, mf \in 0..MetadataSteps, cf \in ContentFaults}
    \* the request fails
    \cup {Call(id, r, 0, 0) : id \in NormalizeIds, r \in FailedResponses}

SampleMetadata == [k \in required_metadata |-> "x"]
SampleContent == [k \in content_keys |-> <<>>]

NormNext ==
    \/ /\ npc = "idle"
       /\ \E in \in NormalizeInputs : ParseLawToMcp(in)
    \/ /\ npc = "idle"
       /\ \E mk \in SUBSET required_metadata, ck \in SUBSET content_keys :
            ConstructMCPLaw(Restrict(SampleMetadata, mk),
                            Restrict(SampleContent, ck))

-----------------------------------------------------------------------------
(* Category classifier: LegalAssistant.                                    *)

\* self.category_keywords
category_keywords ==
    [administrative |->
        {"bestuur", "gemeente", "overheid", "vergunning", "besluit",
         "boete", "parkeren", "aanvragen", "procedure", "bezwaar",
         "toestemming", "handhaving"},
     civil |->
        {"contract", "schade", "eigendom", "huur", "koop",
         "verhuur", "verkoop", "aansprakelijk", "schulden", "betaling",
         "overeenkomst", "verbintenis", "wanprestatie"},
     criminal |->
        {"strafbaar", "overtreding", "boete", "politie",
         "misdrijf", "strafrecht", "veroordeling", "gevangenis",
         "aangifte", "delict", "straf"},
     constitutional |->
        {"recht", "grondrecht", "discriminatie", "vrijheid",
         "mensenrechten", "grondwet", "gelijke behandeling",
         "fundamenteel", "constitutioneel"},
     employment |->
        {"werk", "baas", "werknemer", "salaris", "contract",
         "ontslag", "arbeid", "werkgever", "loon", "CAO",
         "dienstverband", "arbeidsvoorwaarden", "werktijden"},
     discrimination |->
        {"discriminatie", "gelijke behandeling", "ras", "geslacht",
         "leeftijd", "handicap", "afkomst", "religie", "seksuele oriëntatie",
         "ongelijke behandeling", "uitsluiting", "vooroordelen", "intimidatie",
         "pesten", "ongelijkheid"}]

\* self.related_categories
related_categories ==
    [discrimination |-> {"employment", "constitutional"},
     employment |-> {"civil", "discrimination"},
     administrative |-> {"constitutional"}]

\* The loop of _identify_relevant_categories over a keyword table.
CategoriesMatching(keywords, text) ==
    LET situation_lower == Lower(text)
    IN  {category \in DOMAIN keywords :
            \E keyword \in keywords[category] :
                Contains(situation_lower, keyword)}

_identify_relevant_categories(text) ==
    CategoriesMatching(category_keywords, text)

\* The related categories of the members of a set.
Related(cats) ==
    UNION {related_categories[c] : c \in cats \cap DOMAIN related_categories}

RECURSIVE Closure(_)
Closure(cats) ==
    IF Related(cats) \subseteq cats THEN cats ELSE Closure(cats \cup Related(cats))

\* Without `expanded = categories.copy()`: only the related categories.
_expand_categories_related_only(cats) ==
    [expanded |-> Related(cats), categories |-> cats]

_expand_categories_transitively(cats) ==
    [expanded |-> Closure(cats), categories |-> cats]

\* _expand_categories(categories): the set it returns and what the set it
\* was given holds afterwards (it updates a copy).
_expand_categories(cats) ==
    [expanded |-> cats \cup Related(cats), categories |-> cats]

Tags == DOMAIN category_keywords \cup {"tax"}

Keywords == UNION {category_keywords[c] : c \in DOMAIN category_keywords}

\* The situations of main(), the keywords in three letter-casings, and
\* texts without any keyword.
MainSituations ==
    {"Ik heb een boete gekregen van de gemeente voor het parkeren van mijn auto.",
     "Mijn huurbaas wil mijn huurcontract niet verlengen.",
     "Ik word gediscrimineerd op mijn werk vanwege mijn afkomst.",
     "Ik wil een vergunning aanvragen voor mijn bedrijf.",
     "Ik word gepest op mijn werk vanwege mijn geaardheid.",
     "Mijn werkgever weigert mij promotie te geven vanwege mijn leeftijd.",
     "Ik word gediscrimineerd op mijn werk",
     "Goedemiddag", ""}

Situations ==
    MainSituations
    \cup Keywords
    \cup {Upper(k) : k \in Keywords}
    \cup {"Vraag: " \o Lower(k) \o "?" : k \in Keywords}

ClsInit ==
    /\ cpc = "idle"
    /\ situation = ""
    /\ tagsIn = {}
    /\ categories = {}
    /\ expanded = {}
    /\ rounds = 0

\* relevant_categories = self._identify_relevant_categories(situation)
Classify(text) ==
    /\ cpc = "idle"
    /\ cpc' = "classified"
    /\ situation' = text
    /\ categories' = _identify_relevant_categories(text)
    /\ UNCHANGED <<tagsIn, expanded, rounds>>
    /\ ClsFrame

\* expanded_categories = self._expand_categories(relevant_categories)
ExpandClassified ==
    /\ cpc = "classified"
    /\ cpc' = "expanded"
    /\ tagsIn' = categories
    /\ categories' = _expand_categories(categories).categories
    /\ expanded' = _expand_categories(categories).expanded
    /\ rounds' = 1
    /\ UNCHANGED situation
    /\ ClsFrame

\* _expand_categories called on a set of tags of the caller's.
ExpandTags(T) ==
    /\ cpc = "idle"
    /\ cpc' = "expanded"
    /\ tagsIn' = T
    /\ categories' = _expand_categories(T).categories
    /\ expanded' = _expand_categories(T).expanded
    /\ rounds' = 1
    /\ UNCHANGED situation
    /\ ClsFrame

\* Most applications of _expand_categories in a row.
MaxRounds == 4

\* _expand_categories called on the set its previous call returned.
ExpandAgain ==
    /\ cpc = "expanded"
    /\ rounds < MaxRounds
    /\ tagsIn' = expanded
    /\ categories' = _expand_categories(expanded).categories
    /\ expanded' = _expand_categories(expanded).expanded
    /\ rounds' = rounds + 1
    /\ UNCHANGED <<cpc, situation>>
    /\ ClsFrame

ClsNext ==
    \/ \E text \in Situations : Classify(text)
    \/ ExpandClassified
    \/ \E T \in SUBSET Tags : ExpandTags(T)
    \/ ExpandAgain

-----------------------------------------------------------------------------
(* Search adapter: WettenParser.search_laws and what it calls.             *)

\* re.match(r"^BWBR\d+$", query); $ also matches before a final newline.
LooksLikeBwbId(query) ==
    LET n == Len(query)
        last == IF At(query, n) = "\n" THEN n - 1 ELSE n
    IN  /\ StartsWith(query, "BWBR")
        /\ last >= 5
        /\ AllDigits(query, 5, last)

RECURSIVE MakeRequestFrom(_, _, _)
\* The loop of _make_request from iteration a on, when the network answers
\* the k-th request with outs[k]: how many requests were issued, whether a
\* response was returned, and the exception raised if not.
MakeRequestFrom(outs, a, n) ==
    IF a >= n THEN [issued |-> a, ok |-> TRUE, exc |-> NoExc]
    ELSE IF ~AttemptFails(outs[a + 1])
        THEN [issued |-> a + 1, ok |-> TRUE, exc |-> NoExc]
    ELSE IF IsLastAttempt(a, n)
        THEN [issued |-> a + 1, ok |-> FALSE,
              exc |-> ExceptionOf(outs[a + 1], a + 1)]
    ELSE MakeRequestFrom(outs, a + 1, n)

\* self._make_request(url), with the default max_retries.
_make_request(outs) == MakeRequestFrom(outs, 0, DefaultMaxRetries)

DigitValue(c) == CHOOSE n \in 0..9 : Digit(n) = c

RECURSIVE ToInt(_)
ToInt(s) ==
    IF s = "" THEN 0
    ELSE 10 * ToInt(Slice(s, 1, Len(s) - 1)) + DigitValue(At(s, Len(s)))

\* datetime.strptime(date_str, "%Y-%m-%d") accepts the digits yyyy, mm, dd.
IsCalendarDate(yyyy, mm, dd) ==
    /\ ToInt(yyyy) >= 1
    /\ ToInt(mm) \in 1..12
    /\ ToInt(dd) \in 1..DaysInMonth(ToInt(yyyy), ToInt(mm))

\* parse_metadata(html_content), today being datetime.now(): Some(Metadata),
\* or None when it raises (strptime on an impossible date). Of the markup:
\* html.h1 is the heading the chain of soup.find calls gives, html.ids the
\* BWBR\d+ matches, html.geldend the dates after "Geldend van", and
\* html.ministerie the first string naming a ministry.
parse_metadata(html, today) ==
    LET title == IF html.h1 # None THEN Strip(html.h1[1]) ELSE "Unknown Law"
        bwb_id == IF html.ids # <<>> THEN html.ids[1] ELSE "Unknown"
        date_str ==
            IF html.geldend # <<>>
                THEN Slice(html.geldend[1], 7, 10) \o "-"
                        \o Slice(html.geldend[1], 4, 5) \o "-"
                        \o Slice(html.geldend[1], 1, 2)
                ELSE today
        authority ==
            IF html.ministerie # None THEN Strip(html.ministerie[1])
            ELSE "Unknown"
    IN  IF ~IsCalendarDate(Slice(date_str, 1, 4), Slice(date_str, 6, 7),
                           Slice(date_str, 9, 10))
            THEN None
        ELSE Some([name_of_law |-> title,
                   citation_title |-> title,
                   identification_number |-> bwb_id,
                   legal_domain |-> _infer_legal_domain(title),
                   regulatory_authority |-> authority,
                   date_of_entry_into_force |-> date_str,
                   version |-> date_str,
                   status |-> "In force"])

\* A result container of the search page: e.title is the text of its first
\* h3, h2 or a element, e.href the href of its first link to a BWBR
\* identifier (None: there is no such element).
Hit(title, href) == [title |-> title, href |-> href]

\* The dict appended for a container with a title and a link.
ResultOf(e) ==
    [title |-> Strip(e.title[1]),
     bwb_id |-> SearchBwbId(e.href[1])[1],
     url |-> IF StartsWith(e.href[1], "/") THEN BASE_URL \o e.href[1]
             ELSE e.href[1]]

RECURSIVE SearchLoop(_, _, _, _)
\* The `for element in soup.find_all(...)` loop from the i-th container on.
SearchLoop(hits, i, found, max_results) ==
    IF i > Len(hits) THEN found
    ELSE IF hits[i].title = None THEN SearchLoop(hits, i + 1, found, max_results)
    ELSE IF hits[i].href = None THEN SearchLoop(hits, i + 1, found, max_results)
    ELSE LET appended == Append(found, ResultOf(hits[i]))
         IN  IF Len(appended) >= max_results THEN appended
             ELSE SearchLoop(hits, i + 1, appended, max_results)

CaughtOnlyRequestException(e) == e.type \in RequestExceptionTypes

\* `except Exception: pass` around the direct attempt
CaughtByDirectAttempt(e) == TRUE

CaughtOnlyValueError(e) == e.type = "ValueError"

\* the outer `except Exception` of search_laws, which returns []
CaughtBySearchLaws(e) == TRUE

Requests(u, n) == [i \in 1..n |-> u]

\* search_laws(in.query, in.max_results): the URLs it requests and the list
\* it returns, or the exception that leaves it (exc). in.direct and in.search are what the network answers to the
\* requests for the document and for the search page, in.page and in.hits
\* the markup of their successful responses.
search_laws(in) ==
    LET directUrl == BASE_URL \o "/" \o CanonicalId(in.query)
        fetch == _make_request(in.direct)
        metadata == parse_metadata(in.page, in.today)
        directExc ==
            IF ~fetch.ok THEN FetchError(directUrl, fetch.exc)
            ELSE IF metadata = None THEN [type |-> "ValueError"]
            ELSE NoExc
        search == _make_request(in.search)
        \* the regular search: what it returns, or the exception it raises
        regular ==
            [network |-> Requests(SEARCH_URL, search.issued),
             results |-> IF search.ok
                            THEN SearchLoop(in.hits, 1, <<>>, in.max_results)
                            ELSE <<>>,
             exc |-> IF search.ok THEN NoExc ELSE search.exc]
        \* the body of the outer try
        body ==
            IF ~LooksLikeBwbId(in.query) THEN regular
            ELSE IF directExc = NoExc
                THEN [network |-> Requests(directUrl, fetch.issued),
                      results |-> <<[title |-> metadata[1].name_of_law,
                                     bwb_id |-> in.query,
                                     url |-> BASE_URL \o "/" \o in.query]>>,
                      exc |-> NoExc]
            ELSE IF CaughtByDirectAttempt(directExc)
                THEN [regular EXCEPT
                        !.network = Requests(directUrl, fetch.issued) \o @]
            ELSE [network |-> Requests(directUrl, fetch.issued),
                  results |-> <<>>, exc |-> directExc]
    IN  IF body.exc = NoExc THEN body
        ELSE IF CaughtBySearchLaws(body.exc)
            THEN [body EXCEPT !.results = <<>>, !.exc = NoExc]
        ELSE body

SearchInit ==
    /\ spc = "idle"
    /\ sin = <<>>
    /\ network = <<>>
    /\ results = <<>>

\* A caller calls search_laws.
SearchLaws(in) ==
    /\ spc = "idle"
    /\ spc' = IF search_laws(in).exc = NoExc THEN "done" ELSE "raised"
    /\ sin' = in
    /\ network' = search_laws(in).network
    /\ results' = search_laws(in).results
    /\ SearchFrame

\* ---- the inputs of search_laws that the model explores

DefaultMaxResults == 10

Queries ==
    {"BWBR0001840", "0001840", "BWBR0001840\n", "BWBR9999999", "BWBR",
     "grondwet", "zie BWBR0001840"}

Answer(kind, status) == [kind |-> kind, status |-> status]

\* What the network answers to the requests of one _make_request call.
Runs ==
    {<<Answer("response", 200)>>,
     <<Answer("Timeout", 0), Answer("response", 200)>>,
     <<Answer("Timeout", 0), Answer("ConnectionError", 0), Answer("response", 200)>>,
     <<Answer("Timeout", 0), Answer("Timeout", 0), Answer("Timeout", 0)>>,
     <<Answer("response", 404), Answer("response", 404), Answer("response", 404)>>}

DocPage(h1, ids, geldend, ministerie) ==
    [h1 |-> h1, ids |-> ids, geldend |-> geldend, ministerie |-> ministerie]

DocPages ==
    {DocPage(Some(" Grondwet "), <<"BWBR0001840">>, <<"17-02-1983">>,
             Some("Ministerie van Binnenlandse Zaken")),
     DocPage(None, <<>>, <<>>, None),
     DocPage(Some("Grondwet"), <<"BWBR0001840">>, <<"31-02-2023">>, None),
     DocPage(Some(""), <<>>, <<"29-02-2024", "99-99-9999">>, None)}

Todays == {"2024-06-01"}

HitKinds ==
    {Hit(None, None),
     Hit(Some("Grondwet"), None),
     Hit(Some(" Grondwet "), Some("/BWBR0001840")),
     Hit(Some("Awb"), Some("https://wetten.overheid.nl/BWBR0005537/2024-01-01"))}

\* Most result containers in a search page.
MaxHits == 3

HitLists == UNION {[1..n -> HitKinds] : n \in 0..MaxHits}

MaxResultsValues == {0, 1, 2, DefaultMaxResults}

SearchCall(q, m, d, p, t, s, h) ==
    [query |-> q, max_results |-> m, direct |-> d, page |-> p, today |-> t,
     search |-> s, hits |-> h]

SearchInputs ==
    \* the result containers and the cap
    {SearchCall("grondwet", m, <<Answer("response", 200)>>,
                DocPage(None, <<>>, <<>>, None), t,
                <<Answer("response", 200)>>, h) :
        m \in MaxResultsValues, t \in Todays, h \in HitLists}
    \* the query, the direct attempt and the search request
    \cup {SearchCall(q, DefaultMaxResults, d, p, t, s, h) :
            q \in Queries, d \in Runs, p \in DocPages, t \in Todays,
            s \in Runs,
            h \in {<<>>, <<Hit(Some(" Grondwet "), Some("/BWBR0001840")),
                           Hit(Some("Grondwet"), None),
                           Hit(Some("Awb"), Some("/BWBR0005537"))>>}}

SearchNext ==
    /\ spc = "idle"
    /\ \E in \in SearchInputs : SearchLaws(in)

-----------------------------------------------------------------------------
(* Legal assistant: LegalAssistant.analyze_situation and what it calls.    *)

\* self.law_categories
law_categories ==
    [administrative |-> "BWBR0005537",
     civil |-> "BWBR0005291",
     criminal |-> "BWBR0001854",
     constitutional |-> "BWBR0001840",
     employment |-> "BWBR0009405",
     discrimination |-> "BWBR0006502"]

\* One part of the advice text: the sentence about a law, the heading of
\* an article list, one article line, or a block of steps.
Part(kind, about, items) == [kind |-> kind, about |-> about, items |-> items]

\* The article list of the first law of a domain: up to three of its
\* articles whose lowercased text holds one of the keywords, under a
\* heading; nothing when there is no such law or no such article.
RelevantArticles(laws, domain, keywords, heading) ==
    LET found == {i \in 1..Len(laws) : laws[i].metadata.legal_domain = domain}
        articles == IF found = {} THEN <<>>
                    ELSE laws[MinOf(found)].content.articles
        relevant_articles ==
            SelectSeq(articles, LAMBDA a : AnyIn(keywords, Lower(a.text)))
    IN  IF relevant_articles = <<>> THEN <<>>
        ELSE <<Part("articles", heading, <<>>)>>
                \o MapSeq(Prefix(relevant_articles, 3),
                          LAMBDA a : Part("article", a.number, <<a.title>>))

\* _generate_advice(situation, laws, categories): the parts it joins.
_generate_advice(laws, cats) ==
    LET general ==
            MapSeq(laws, LAMBDA law :
                Part("law", law.metadata.name_of_law,
                     <<law.metadata.citation_title,
                       law.metadata.date_of_entry_into_force,
                       law.metadata.regulatory_authority>>))
        equal == RelevantArticles(laws, "Equal Treatment Law",
                    {"discriminatie", "gelijke behandeling"},
                    "Algemene wet gelijke behandeling")
        work(keywords) ==
            RelevantArticles(laws, "Employment Law", keywords,
                             "Wet op de arbeidsovereenkomst")
    IN  IF laws = <<>>
            THEN <<Part("none",
                        "Geen relevante wetgeving gevonden voor deze situatie.",
                        <<>>)>>
        ELSE IF "discrimination" \in cats
            THEN general \o equal \o <<Part("steps", "discriminatie", <<>>)>>
                \o (IF "employment" \in cats
                        THEN work({"discriminatie", "gelijke behandeling",
                                   "arbeidsvoorwaarden"})
                                \o <<Part("steps", "discriminatie op het werk",
                                          <<>>)>>
                        ELSE <<>>)
        ELSE IF "employment" \in cats
            THEN general \o work({"arbeidsovereenkomst", "ontslag", "salaris"})
                \o <<Part("steps", "arbeidsrechtelijke kwesties", <<>>)>>
        ELSE IF "administrative" \in cats
            THEN general
                \o RelevantArticles(laws, "Administrative Law",
                                    {"bezwaar", "beroep", "besluit"},
                                    "Algemene wet bestuursrecht")
                \o <<Part("steps", "procedures met de overheid", <<>>)>>
        ELSE IF "civil" \in cats
            THEN general
                \o RelevantArticles(laws, "Civil Law",
                                    {"contract", "huur", "koop"},
                                    "Burgerlijk Wetboek")
                \o <<Part("steps", "civielrechtelijke geschillen", <<>>)>>
        ELSE general

_extract_references(laws) ==
    MapSeq(laws, LAMBDA law :
        [name |-> law.metadata.name_of_law,
         citation |-> law.metadata.citation_title,
         bwb_id |-> law.metadata.identification_number,
         domain |-> law.metadata.legal_domain,
         entry_force |-> law.metadata.date_of_entry_into_force,
         authority |-> law.metadata.regulatory_authority])

\* analyze_situation(in.situation). in.order is the order in which the set
\* of expanded categories is iterated (any order: it is a set of strings),
\* in.responses[category] what the network answers to the request for that
\* category's law. A law whose parse raises is logged and left out.
\* The loop `for category in expanded_categories` of analyze_situation:
\* the Documents it appends to relevant_laws.
RelevantLaws(order, responses) ==
    LET listed == SelectSeq(order, LAMBDA c : c \in DOMAIN law_categories)
        parses ==
            MapSeq(listed, LAMBDA c :
                parse_law_to_mcp(Call(law_categories[c], responses[c], 0, 0)))
    IN  MapSeq(SelectSeq(parses, LAMBDA r : r.pc = "done"), LAMBDA r : r.doc)

\* The dict analyze_situation returns.
Analysis(text, order, relevant_laws, expanded_categories) ==
    [situation |-> text,
     relevant_categories |-> order,
     relevant_laws |-> MapSeq(relevant_laws,
                              LAMBDA law : law.metadata.name_of_law),
     advice |-> _generate_advice(relevant_laws, expanded_categories),
     references |-> _extract_references(relevant_laws)]

analyze_situation(in) ==
    Analysis(in.situation, in.order, RelevantLaws(in.order, in.responses),
             _expand_categories(
                _identify_relevant_categories(in.situation)).expanded)

AssistInit ==
    /\ apc = "idle"
    /\ ain = <<>>
    /\ analysis = <<>>

\* A caller calls analyze_situation.
AnalyzeSituation(in) ==
    /\ apc = "idle"
    /\ apc' = "done"
    /\ ain' = in
    /\ analysis' = analyze_situation(in)
    /\ AssistFrame

\* ---- the inputs of analyze_situation that the model explores

\* The orders in which a set can be iterated.
Orders(S) ==
    {o \in [1..Cardinality(S) -> S] : {o[i] : i \in 1..Cardinality(S)} = S}

\* What the network answers to the request for each category's law: the
\* same to all of them, or a failure for some and markup for the others.
NetworkOutcomes ==
    {[c \in DOMAIN law_categories |-> r] :
        r \in {Ok(200, FullPage), Ok(200, EmptyPage)} \cup FailedResponses}
    \cup {[c \in DOMAIN law_categories |->
            IF c \in failing THEN [kind |-> "Timeout", status |-> 0,
                                   page |-> EmptyPage]
            ELSE Ok(200, FullPage)] :
          failing \in {{"employment"}, {"civil", "constitutional"}}}

AnalyzeInputs ==
    UNION {{[situation |-> text, order |-> o, responses |-> n] :
                o \in Orders(_expand_categories(
                        _identify_relevant_categories(text)).expanded),
                n \in NetworkOutcomes} :
            text \in MainSituations}

AssistNext ==
    /\ apc = "idle"
    /\ \E in \in AnalyzeInputs : AnalyzeSituation(in)

-----------------------------------------------------------------------------

(* Session: the tables of one LegalAssistant and its WettenParser, and the *)
(* Documents handed out, over a sequence of calls.                         *)

DefaultsAliasWithoutCopy(bwb_id) ==
    IF bwb_id \in DOMAIN common_laws THEN Some(bwb_id) ELSE None

\* Which object the dict returned by _get_default_metadata is: a new one
\* (None: `self.common_laws[bwb_id].copy()`, or the dict literal), not the
\* lookup table's entry itself (Some(bwb_id)).
DefaultsAlias(bwb_id) == None

\* LegalAssistant(), which builds its WettenParser.
SessionInit ==
    /\ tables = [category_keywords |-> category_keywords,
                 related_categories |-> related_categories,
                 law_categories |-> law_categories,
                 common_laws |-> common_laws]
    /\ held = <<>>
    /\ log = <<>>

\* Most calls in a session.
MaxCalls == 3

Logged(op, arg, out) == Append(log, [op |-> op, arg |-> arg, out |-> out])

\* parse_law_to_mcp: _extract_metadata and MCPLaw.__post_init__ assign into
\* the defaults dict in place, and the Document keeps that dict as its
\* metadata.
SessionNormalize(in) ==
    /\ Len(log) < MaxCalls
    /\ log' = Logged("parse_law_to_mcp", in.bwb_id, parse_law_to_mcp(in))
    /\ LET out == log'[Len(log')].out
           alias == DefaultsAlias(in.bwb_id)
       IN  /\ tables' =
                IF out.pc = "done" /\ alias # None
                    THEN [tables EXCEPT
                            !.common_laws[alias[1]] = out.doc.metadata]
                    ELSE tables
           /\ held' =
                IF out.pc = "done"
                    THEN Append(held, [alias |-> alias, doc |-> out.doc])
                    ELSE held
    /\ SessionFrame

\* _identify_relevant_categories reads self.category_keywords.
SessionClassify(text) ==
    /\ Len(log) < MaxCalls
    /\ log' = Logged("_identify_relevant_categories", text,
                     CategoriesMatching(tables.category_keywords, text))
    /\ UNCHANGED <<tables, held>>
    /\ SessionFrame

\* _expand_categories reads self.related_categories and updates a copy of
\* its argument.
SessionExpand(T) ==
    /\ Len(log) < MaxCalls
    /\ log' = Logged("_expand_categories", T, _expand_categories(T).expanded)
    /\ UNCHANGED <<tables, held>>
    /\ SessionFrame

\* search_laws reads none of the tables.
SessionSearch(in) ==
    /\ Len(log) < MaxCalls
    /\ log' = Logged("search_laws", in.query, search_laws(in).results)
    /\ UNCHANGED <<tables, held>>
    /\ SessionFrame

\* ---- the calls of a session that the model explores

SessionCalls ==
    {Call(id, r, 0, 0) :
        id \in {"BWBR0005537", "BWBR9999999"},
        r \in {Ok(200, FullPage), Ok(200, EmptyPage),
               [kind |-> "Timeout", status |-> 0, page |-> EmptyPage]}}

SessionNext ==
    \/ \E in \in SessionCalls : SessionNormalize(in)
    \/ \E text \in {"Ik word gediscrimineerd op mijn werk", "Goedemiddag"} :
            SessionClassify(text)
    \/ SessionExpand({"employment"})
    \/ SessionSearch(SearchCall("BWBR0005537", DefaultMaxResults,
                                <<Answer("response", 200)>>,
                                DocPage(Some("Awb"), <<"BWBR0005537">>,
                                        <<"01-01-1994">>, None),
                                "2024-06-01", <<Answer("response", 200)>>, <<>>))

-----------------------------------------------------------------------------

(* Specifications: one per component; the other components stay idle.     *)

Init ==
    /\ FetchInit /\ DateInit /\ NormInit /\ ClsInit /\ SearchInit /\ InferInit
    /\ AssistInit /\ SessionInit

\* The Fetcher.
Next == FetchNext

Spec == Init /\ [][Next]_vars

\* Date parsing.
SpecDate == Init /\ [][DateNext]_vars

\* The HTML Normalizer and the document model.
SpecNormalize == Init /\ [][NormNext]_vars

\* The category classifier.
SpecClassify == Init /\ [][ClsNext]_vars

\* The search adapter.
SpecSearch == Init /\ [][SearchNext]_vars

\* The two domain inference functions.
SpecInfer == Init /\ [][InferNext]_vars

\* The legal assistant.
SpecAssistant == Init /\ [][AssistNext]_vars

\* A session of calls on one assistant and its parser.
SpecSession == Init /\ [][SessionNext]_vars

-----------------------------------------------------------------------------
(* Claims.                                                                 *)

FailedAll(s) == \A i \in 1..Len(s) : AttemptFails(s[i])

LastOutcome == outcomes[Len(outcomes)]

\* C1: with max_retries = N >= 1 the retry loop issues its requests one at
\* a time with one delay between two consecutive requests, never more than
\* N of them; it returns the body of the first request that succeeds, after
\* exactly that many requests, and raises only after exactly N failed
\* requests, without a delay after the last one.
C1_BoundedRetry ==
    max_retries >= 1 =>
        /\ issued = Len(outcomes)
        /\ issued <= max_retries
        /\ fpc \in {"get", "sleep"} => FailedAll(outcomes) /\ issued < max_retries
        /\ fpc = "get" => sleeps = issued
        /\ fpc = "sleep" => sleeps = issued - 1
        /\ fpc = "returned" =>
            /\ issued >= 1
            /\ ~AttemptFails(LastOutcome)
            /\ FailedAll(SubSeq(outcomes, 1, issued - 1))
            /\ result = Some(Body(url, issued))
            /\ sleeps = issued - 1
            /\ mrExc = NoExc /\ exc = NoExc
        /\ fpc = "raised" =>
            /\ issued = max_retries
            /\ FailedAll(outcomes)
            /\ sleeps = max_retries - 1
            /\ result = None
            /\ mrExc # NoExc /\ exc # NoExc

\* Fail, fail, succeed with N = 3: the third response is returned.
C1_Witness ==
    /\ fpc = "returned"
    /\ max_retries = 3
    /\ issued = 3
    /\ sleeps = 2
    /\ result = Some(Body(url, 3))

\* C2 as stated: when every attempt fails, the caller of
\* fetch_law_by_bwb_id receives the final attempt's own exception.
C2_FinalExceptionUnchanged ==
    (fpc = "raised" /\ caller = "fetch_law_by_bwb_id") =>
        exc = ExceptionOf(LastOutcome, issued)

\* C2, amended: when every attempt fails, the final attempt's exception
\* leaves _make_request unchanged, and the caller of fetch_law_by_bwb_id
\* receives a ValueError made from it (naming the prefixed identifier and
\* carrying that exception's text); a direct caller of _make_request
\* receives the final attempt's exception itself.
C2_FinalExceptionWrapped ==
    fpc = "raised" =>
        /\ mrExc = ExceptionOf(LastOutcome, max_retries)
        /\ caller = "_make_request" => exc = mrExc
        /\ caller = "fetch_law_by_bwb_id" =>
            /\ exc.type = "ValueError"
            /\ exc.cause = ExceptionOf(LastOutcome, max_retries)
            /\ url = BASE_URL \o "/" \o exc.bwb_id
            /\ StartsWith(exc.bwb_id, "BWBR")

C2_Witness ==
    /\ fpc = "raised"
    /\ caller = "fetch_law_by_bwb_id"
    /\ issued = 3
    /\ LastOutcome.kind = "Timeout"
    /\ exc.type = "ValueError"
    /\ exc.cause.type = "Timeout"

\* The documented defaults of an identifier: its lookup-table entry, or
\* the generic defaults.
DocumentedDefault(id) ==
    IF id \in TableIds THEN common_laws[id]
    ELSE [name_of_law |-> "Unknown Law", citation_title |-> "Unknown",
          date_of_entry_into_force |-> "Unknown",
          regulatory_authority |-> "Unknown", legal_domain |-> "Unknown",
          identification_number |-> id]

Parsed == npc = "done" /\ nop = "parse_law_to_mcp"

Fetched == Parsed /\ ~AttemptFails(nin.response)

\* C3: every Document of parse_law_to_mcp (fetched, hit by an extraction
\* error, or not fetched) and every MCPLaw built from any metadata mapping
\* has the six required metadata fields; a field for which nothing was
\* found holds its default.
C3_RequiredMetadataPresent ==
    npc = "done" =>
        /\ required_metadata \subseteq DOMAIN doc.metadata
        /\ \A k \in required_metadata : doc.metadata[k] \in STRING
        /\ nop = "MCPLaw" =>
            \A k \in required_metadata :
                doc.metadata[k] =
                    IF k \in DOMAIN nin.metadata THEN nin.metadata[k]
                    ELSE "Unknown"
        /\ nop = "parse_law_to_mcp" =>
            LET default == DocumentedDefault(nin.bwb_id)
                page == nin.response.page
                failed == AttemptFails(nin.response)
            IN  /\ (failed \/ page.title = None) =>
                    doc.metadata.name_of_law = default.name_of_law
                /\ (failed \/ page.citation = None) =>
                    doc.metadata.citation_title = default.citation_title
                /\ (failed \/ page.inwerkingtreding = None) =>
                    doc.metadata.date_of_entry_into_force =
                        default.date_of_entry_into_force
                /\ (failed \/ page.beheerder = None) =>
                    doc.metadata.regulatory_authority =
                        default.regulatory_authority
                /\ doc.metadata.identification_number = nin.bwb_id

C3_Witness ==
    /\ npc = "done"
    /\ nop = "MCPLaw"
    /\ DOMAIN nin.metadata = {"name_of_law"}
    /\ doc.metadata.name_of_law = "x"
    /\ doc.metadata.legal_domain = "Unknown"

ArticleFields == {"number", "title", "text"}

WellFormedArticles(articles) ==
    \A i \in 1..Len(articles) :
        /\ ArticleFields \subseteq DOMAIN articles[i]
        /\ \A k \in ArticleFields : articles[i][k] \in STRING

\* The extracted articles stand for the article containers, and a
\* sub-element missing from a container gives "".
EmptyWhereMissing(articles, elems) ==
    /\ Len(articles) <= Len(elems)
    /\ \A i \in 1..Len(articles) :
        \A k \in ArticleFields : elems[i][k] = None => articles[i][k] = ""

GroupsWellFormed(groups, elems) ==
    /\ Len(groups) <= Len(elems)
    /\ \A j \in 1..Len(groups) :
        /\ WellFormedArticles(groups[j].articles)
        /\ Fetched =>
            EmptyWhereMissing(groups[j].articles,
                              FindAll(elems[j].children, "wet-artikel"))

\* C4: articles, chapters and sections of every Document are sequences,
\* and every extracted Article has number, title and text as strings, "" for
\* a missing sub-element.
C4_ContentAlwaysPresent ==
    npc = "done" =>
        /\ content_keys \subseteq DOMAIN doc.content
        /\ \A k \in content_keys :
            DOMAIN doc.content[k] = 1..Len(doc.content[k])
        /\ WellFormedArticles(doc.content.articles)
        /\ Fetched =>
            EmptyWhereMissing(doc.content.articles,
                              FindAll(nin.response.page.body, "wet-artikel"))
        /\ GroupsWellFormed(doc.content.chapters,
                            IF Fetched
                                THEN FindAll(nin.response.page.body, "wet-hoofdstuk")
                                ELSE <<>>)
        /\ GroupsWellFormed(doc.content.sections,
                            IF Fetched
                                THEN FindAll(nin.response.page.body, "wet-afdeling")
                                ELSE <<>>)

\* An article container without sub-elements, inside a chapter.
C4_Witness ==
    /\ Fetched
    /\ nin.response.page.body =
            <<Hoofdstuk(None, None, <<Artikel(None, None, None, <<>>)>>)>>
    /\ doc.content.articles =
            <<[number |-> "", title |-> "", text |-> "", paragraphs |-> <<>>]>>
    /\ doc.content.chapters =
            <<[number |-> "", title |-> "",
               articles |-> <<[number |-> "", title |-> "", text |-> ""]>>]>>
    /\ doc.content.sections = <<>>

\* C5: for a lookup-table identifier, markup with none of the expected
\* elements is normalized to exactly the lookup table's metadata.
C5_FallbackToKnownLaw ==
    (Fetched /\ nin.response.page = EmptyPage /\ nin.bwb_id \in TableIds) =>
        doc.metadata = common_laws[nin.bwb_id]

C5_Witness ==
    /\ Fetched
    /\ nin.response.page = EmptyPage
    /\ nin.bwb_id = "BWBR0009405"
    /\ nin.metaFault = 0
    /\ doc.metadata.legal_domain = "Employment Law"

\* C6: when its request fails, parse_law_to_mcp does not raise; it returns
\* a Document with the lookup-table entry (or the generic defaults) as
\* metadata and empty articles, chapters and sections.
C6_FetchFailureDegrades ==
    (nop = "parse_law_to_mcp" /\ AttemptFails(nin.response)) =>
        /\ npc = "done"
        /\ doc.metadata = DocumentedDefault(nin.bwb_id)
        /\ doc.content = [articles |-> <<>>, chapters |-> <<>>, sections |-> <<>>]

C6_Witness ==
    /\ Parsed
    /\ nin.response.kind = "ConnectionError"
    /\ nin.bwb_id = "BWBR9999999"
    /\ doc.metadata.name_of_law = "Unknown Law"
    /\ doc.content.articles = <<>>

\* C7: a calendar date parses to the same date (its YYYY-MM-DD form)
\* whichever of the three literal formats it is written in.
C7_SameDateInEveryFormat == dpc = "parsed" => parsed = Some(Iso(calDate))

C7_Witness ==
    /\ dpc = "parsed"
    /\ dateText = "24-03-1815"
    /\ parsed = Some("1815-03-24")

\* The date the three formats give for a text, tried in the fixed order;
\* None when none of them parses.
FirstFormatThatParses(t) ==
    LET m1 == SearchDayNameYear(t)
        m2 == SearchDashed(t, 2, 2, 4)
        m3 == SearchDashed(t, 4, 2, 2)
    IN  IF m1 # None /\ Lower(m1[1].g2) \in DOMAIN dutch_months
            THEN Some(m1[1].g3 \o "-" \o dutch_months[Lower(m1[1].g2)]
                        \o "-" \o ZFill2(m1[1].g1))
        ELSE IF m2 # None THEN Some(m2[1].g3 \o "-" \o m2[1].g2 \o "-" \o m2[1].g1)
        ELSE IF m3 # None THEN Some(m3[1].g1 \o "-" \o m3[1].g2 \o "-" \o m3[1].g3)
        ELSE None

\* C8 as stated: the first of the three formats that parses gives the
\* normalized date; when none parses, the date is the lookup table's date
\* for a lookup-table identifier and "Unknown" otherwise.
C8_ThreeFormatsThenLookupThenUnknown ==
    (Fetched /\ nin.metaFault = 0 /\ nin.response.page.inwerkingtreding # None) =>
        LET found == FirstFormatThatParses(
                        Strip(nin.response.page.inwerkingtreding[1]))
        IN  doc.metadata.date_of_entry_into_force =
                IF found # None THEN found[1]
                ELSE IF nin.bwb_id \in TableIds
                    THEN common_laws[nin.bwb_id].date_of_entry_into_force
                ELSE "Unknown"

\* C9 as stated: classify returns exactly the domains that have a keyword
\* occurring in the text, compared case-insensitively.
C9_CaseInsensitiveKeywordMatch ==
    cpc = "classified" =>
        categories =
            {c \in DOMAIN category_keywords :
                \E k \in category_keywords[c] :
                    Contains(Lower(situation), Lower(k))}

\* C10: expand returns exactly its input together with the domains
\* directly related to a member of the input (no second step), and leaves
\* the input set as it was.
C10_OneLevelExpansion ==
    cpc = "expanded" =>
        /\ tagsIn \subseteq expanded
        /\ \A t \in tagsIn \cap DOMAIN related_categories :
                related_categories[t] \subseteq expanded
        /\ \A d \in expanded \ tagsIn :
                \E t \in tagsIn \cap DOMAIN related_categories :
                    d \in related_categories[t]
        /\ categories = tagsIn

\* constitutional is two steps from employment: it is not added.
C10_Witness ==
    /\ cpc = "expanded"
    /\ tagsIn = {"employment"}
    /\ expanded = {"employment", "civil", "discrimination"}
    /\ categories = {"employment"}

\* C11 as stated: classifying "Ik word gediscrimineerd op mijn werk" gives
\* a set with discrimination in it, and expanding that set gives one with
\* employment and constitutional in it.
C11_DiscriminationAtWork ==
    situation = "Ik word gediscrimineerd op mijn werk" =>
        /\ cpc = "classified" => "discrimination" \in categories
        /\ cpc = "expanded" =>
            {"employment", "constitutional"} \subseteq expanded

\* C19 as stated: a call of _make_request or fetch_law_by_bwb_id returns a
\* body only for a response of status 200; every other status is a failed
\* attempt.
C19_Non200IsFailure ==
    (fpc = "returned" /\ result # None) =>
        (LastOutcome.kind = "response" /\ LastOutcome.status = 200)

\* C16 as stated: a parser constructed with cache_dir, once it has fetched
\* an identifier successfully, serves every later fetch of that identifier
\* from the cache: no network request is issued and the same markup is
\* returned.
C16_CacheHitAvoidsNetwork ==
    (/\ cache_dir # None
     /\ caller = "fetch_law_by_bwb_id"
     /\ BwbIdOfUrl(url) \in DOMAIN fetched) =>
        /\ issued = 0
        /\ fpc \in {"returned", "raised"} =>
            (fpc = "returned" /\ result = Some(fetched[BwbIdOfUrl(url)]))

\* C15 as stated: the normalizer treats an identifier without the BWBR
\* prefix as its prefixed form: it requests the prefixed URL, falls back to
\* the prefixed identifier's defaults and gives the prefixed identifier as
\* identification number; prefixing a prefixed identifier changes nothing.
C15_PrefixOptional ==
    Parsed =>
        LET id == CanonicalId(nin.bwb_id)
        IN  /\ CanonicalId(id) = id
            /\ nrequests = <<BASE_URL \o "/" \o id>>
            /\ doc.metadata.identification_number = id
            /\ AttemptFails(nin.response) =>
                doc.metadata = DocumentedDefault(id)

\* The metadata field each statement group of _extract_metadata sets.
FieldOfStep ==
    <<"name_of_law", "citation_title", "date_of_entry_into_force",
      "regulatory_authority", "legal_domain", "identification_number">>

\* C17 as stated: when the extraction of one metadata field raises, every
\* other field has the value it has without the exception (the legal
\* domain, which is derived from the name, aside when the name's extraction
\* raised); when the extraction of one container raises, every other
\* container is still extracted.
C17_FaultKeepsTheRest ==
    Fetched =>
        LET page == nin.response.page
            clean == _extract_metadata(page, nin.bwb_id, 0)
            whole == _extract_content(page, 0)
            total == Len(whole.articles) + Len(whole.chapters)
                        + Len(whole.sections)
            got == Len(doc.content.articles) + Len(doc.content.chapters)
                        + Len(doc.content.sections)
        IN  /\ nin.metaFault > 0 =>
                \A k \in required_metadata \ {FieldOfStep[nin.metaFault]} :
                    \/ k = "legal_domain" /\ nin.metaFault = 1
                    \/ doc.metadata[k] = clean[k]
            /\ nin.contentFault > 0 => got >= total - 1

\* What the markup gives for a metadata field; None when it gives nothing.
MarkupValue(page, field) ==
    CASE field = "name_of_law" ->
            IF page.title = None THEN None ELSE Some(Strip(page.title[1]))
      [] field = "citation_title" ->
            IF page.citation = None THEN None
            ELSE SearchParenthesised(Strip(page.citation[1]))
      [] field = "date_of_entry_into_force" ->
            IF page.inwerkingtreding = None THEN None
            ELSE _parse_dutch_date(Strip(page.inwerkingtreding[1]))
      [] field = "regulatory_authority" ->
            IF page.beheerder = None THEN None
            ELSE Some(Strip(page.beheerder[1]))
      [] field = "legal_domain" ->
            IF page.title = None
                \/ _determine_law_type(Strip(page.title[1])) = "Unknown"
                THEN None
            ELSE Some(_determine_law_type(Strip(page.title[1])))
      [] field = "identification_number" -> None

\* C18 as stated: every metadata field, the legal domain included, has the
\* markup's value, else the lookup table's value for a lookup-table
\* identifier, else the generic default; so no field of a lookup-table
\* identifier is "Unknown".
C18_FieldFallbackChain ==
    (Fetched /\ nin.metaFault = 0) =>
        \A k \in required_metadata :
            LET found == MarkupValue(nin.response.page, k)
            IN  /\ doc.metadata[k] =
                    IF found # None THEN found[1]
                    ELSE DocumentedDefault(nin.bwb_id)[k]
                /\ nin.bwb_id \in TableIds => doc.metadata[k] # "Unknown"

\* C20 as stated: parse_law_to_mcp gives up on a transient network failure
\* (timeout, connection error) only after as many requests as the retry
\* bound.
C20_NormalizerFetchRetried ==
    (Parsed /\ nin.response.kind \in {"Timeout", "ConnectionError"}) =>
        Len(nrequests) = DefaultMaxRetries

Answered(outs) == \E i \in 1..Len(outs) : ~AttemptFails(outs[i])

HasTitleAndLink(e) == e.title # None /\ e.href # None

\* What the full-text search of the call returns.
FullTextResults ==
    IF Answered(sin.search)
        THEN SearchLoop(sin.hits, 1, <<>>, sin.max_results)
        ELSE <<>>

\* C12 as stated: for max_results >= 0 the full-text search returns, in
\* page order, the first max_results containers that have a title and an
\* identifier-bearing link, and never more than max_results entries.
C12_CappedInPageOrder ==
    (/\ spc = "done"
     /\ ~LooksLikeBwbId(sin.query)
     /\ Answered(sin.search)
     /\ sin.max_results >= 0) =>
        LET valid == SelectSeq(sin.hits, HasTitleAndLink)
            n == IF Len(valid) < sin.max_results THEN Len(valid)
                 ELSE sin.max_results
        IN  /\ Len(results) <= sin.max_results
            /\ results = [i \in 1..n |-> ResultOf(valid[i])]

\* C13 as stated: search_laws of a lookup-table identifier, written with or
\* without the prefix, whose document can be fetched returns exactly one
\* result, which carries the prefixed identifier.
C13_BareIdentifierOneResult ==
    (/\ spc = "done"
     /\ CanonicalId(sin.query) \in TableIds
     /\ Answered(sin.direct)) =>
        /\ Len(results) = 1
        /\ results[1].bwb_id = CanonicalId(sin.query)

\* The direct attempt of the call succeeds: the document is fetched and
\* its metadata parsed.
DirectSucceeds ==
    Answered(sin.direct) /\ parse_metadata(sin.page, sin.today) # None

\* C14: for a query that matches the identifier pattern the document is
\* requested before any search request; if the direct attempt succeeds the
\* one result made from the parsed metadata is returned and no search
\* request is issued; if the fetch or the parse fails the search request
\* follows and its results are returned. Any other query is answered by
\* search requests only.
C14_DirectBeforeFullText ==
    spc = "done" =>
        LET direct == BASE_URL \o "/" \o sin.query
            n == Len(network)
        IN  /\ n >= 1
            /\ \A i \in 1..n : network[i] \in {direct, SEARCH_URL}
            /\ \A i, j \in 1..n :
                (i < j /\ network[i] = SEARCH_URL) => network[j] = SEARCH_URL
            /\ IF ~LooksLikeBwbId(sin.query)
                 THEN /\ \A i \in 1..n : network[i] = SEARCH_URL
                      /\ results = FullTextResults
               ELSE IF DirectSucceeds
                 THEN /\ \A i \in 1..n : network[i] = direct
                      /\ results =
                            <<[title |-> parse_metadata(sin.page, sin.today)[1].name_of_law,
                               bwb_id |-> sin.query,
                               url |-> direct]>>
               ELSE /\ network[1] = direct
                    /\ network[n] = SEARCH_URL
                    /\ results = FullTextResults

\* The document is fetched but its "Geldend van" date is impossible, so the
\* parse fails and the search page's results are returned.
C14_Witness ==
    /\ spc = "done"
    /\ sin.query = "BWBR0001840"
    /\ sin.page.geldend = <<"31-02-2023">>
    /\ network = <<BASE_URL \o "/BWBR0001840", SEARCH_URL>>
    /\ Len(results) = 2
    /\ results[1].bwb_id = "BWBR0001840"

\* C24: for every retry bound, zero and negative bounds included, a
\* _make_request call ends by returning the text of a successful response
\* or by raising; it never returns without a value.
C24_NoResponseMeansRaise ==
    (fpc = "returned" /\ caller = "_make_request") =>
        /\ result # None
        /\ outcomes # <<>>
        /\ ~AttemptFails(outcomes[Len(outcomes)])

\* C25: every Article of the content tree, inside a chapter or a section as
\* well as in the flat sequence, has number, title, text and a sequence of
\* paragraphs, each with number and text.
HasParagraphs(article) ==
    /\ ArticleFields \cup {"paragraphs"} \subseteq DOMAIN article
    /\ DOMAIN article.paragraphs = 1..Len(article.paragraphs)
    /\ \A i \in 1..Len(article.paragraphs) :
        DOMAIN article.paragraphs[i] = {"number", "text"}

C25_EveryArticleHasParagraphs ==
    Parsed =>
        /\ \A i \in 1..Len(doc.content.articles) :
            HasParagraphs(doc.content.articles[i])
        /\ \A k \in {"chapters", "sections"} :
            \A j \in 1..Len(doc.content[k]) :
                \A i \in 1..Len(doc.content[k][j].articles) :
                    HasParagraphs(doc.content[k][j].articles[i])

\* A YYYY-MM-DD string that denotes a day of the calendar.
IsRealIsoDate(s) ==
    /\ Len(s) = 10
    /\ AllDigits(s, 1, 4) /\ At(s, 5) = "-"
    /\ AllDigits(s, 6, 7) /\ At(s, 8) = "-"
    /\ AllDigits(s, 9, 10)
    /\ IsCalendarDate(Slice(s, 1, 4), Slice(s, 6, 7), Slice(s, 9, 10))

\* C27: whatever date text the markup holds, date_of_entry_into_force of a
\* Document of parse_law_to_mcp is "Unknown" or a YYYY-MM-DD string that
\* denotes a real calendar date.
C27_DateIsUnknownOrReal ==
    Parsed =>
        \/ doc.metadata.date_of_entry_into_force = "Unknown"
        \/ IsRealIsoDate(doc.metadata.date_of_entry_into_force)

\* C28: the Document of parse_law_to_mcp(bwb_id) carries bwb_id as its
\* identification_number in every outcome: markup normalized, an exception
\* during metadata extraction, or the fetch failed.
C28_IdentifierIsTheArgument ==
    Parsed => doc.metadata.identification_number = nin.bwb_id

\* The first statement of the metadata extraction raises for an identifier
\* the lookup table does not know: the Document is the generic defaults.
C28_Witness ==
    /\ Parsed
    /\ nin.bwb_id = "BWBR9999999"
    /\ nin.metaFault = 1
    /\ doc.metadata.name_of_law = "Unknown Law"
    /\ doc.metadata.identification_number = "BWBR9999999"

RECURSIVE Listing(_, _)
\* The containers of class cls in a sequence of trees, nested or not: a
\* container comes before the containers inside it, and those before the
\* containers that follow it.
Listing(elems, cls) ==
    IF elems = <<>> THEN <<>>
    ELSE LET e == Head(elems)
         IN  (IF e.cls = cls THEN <<e>> ELSE <<>>)
                \o Listing(e.children, cls) \o Listing(Tail(elems), cls)

\* The extracted entries stand, one for one and in order, for the first
\* containers of the listing; for all of them when nothing was cut short.
StandFor(entries, elems, complete, Matches(_, _)) ==
    /\ Len(entries) <= Len(elems)
    /\ complete => Len(entries) = Len(elems)
    /\ \A i \in 1..Len(entries) : Matches(entries[i], elems[i])

ArticleOf(article, e) ==
    \A k \in ArticleFields : article[k] = SubText(e[k])

GroupOf(group, e) ==
    /\ group.number = SubText(e.number)
    /\ group.title = SubText(e.title)
    /\ StandFor(group.articles, Listing(e.children, "wet-artikel"), TRUE,
                ArticleOf)

\* C26: the flat articles sequence has one entry for every article
\* container of the markup, nested or not, in document order; the articles
\* of a chapter or section are exactly the article containers inside it, in
\* order (so a nested article is listed both there and in the flat
\* sequence); chapters and sections keep document order. An exception during
\* the extraction can only cut the sequences short.
C26_ArticlesFlatAndNested ==
    Fetched =>
        LET body == nin.response.page.body
            whole == nin.contentFault = 0
        IN  /\ StandFor(doc.content.articles, Listing(body, "wet-artikel"),
                        whole, ArticleOf)
            /\ StandFor(doc.content.chapters, Listing(body, "wet-hoofdstuk"),
                        whole, GroupOf)
            /\ StandFor(doc.content.sections, Listing(body, "wet-afdeling"),
                        whole, GroupOf)

\* An article inside a section inside a chapter, followed by a top-level
\* article: the nested article is listed three times.
C26_Witness ==
    /\ Fetched
    /\ nin.contentFault = 0
    /\ nin.response.page.body =
        <<Hoofdstuk(Some("1.1"), Some(" Algemeen "),
                    <<Afdeling(None, None,
                               <<Artikel(Some("2a"), None, Some(""),
                                         <<Lid(None, None)>>)>>)>>),
          Artikel(Some(" 1 "), Some("Titel"), Some("Tekst van het artikel"),
                  <<Lid(Some("1"), Some("Eerste lid"))>>)>>
    /\ Len(doc.content.articles) = 2
    /\ doc.content.articles[1].number = "2a"
    /\ doc.content.articles[2].number = "1"
    /\ doc.content.chapters[1].articles[1].number = "2a"
    /\ doc.content.sections[1].articles[1].number = "2a"

\* C29: from any set of tags, every application of _expand_categories
\* returns a superset of the set it was given, and the third and every later
\* application in a row returns the set it was given: two applications reach
\* the fixed point.
C29_FixedPointAfterTwo ==
    cpc = "expanded" =>
        /\ tagsIn \subseteq expanded
        /\ rounds >= 3 => expanded = tagsIn

\* The third application, on what {employment} grew into after two: the
\* second application still added constitutional, the third adds nothing.
C29_Witness ==
    /\ cpc = "expanded"
    /\ rounds = 3
    /\ tagsIn = {"employment", "civil", "discrimination", "constitutional"}
    /\ expanded = tagsIn

\* C30: search_laws never raises to its caller: for every query and every
\* failure of the direct attempt or of the search request it returns a
\* list, and the list is empty when the search request, issued and retried,
\* was never answered.
C30_SearchNeverRaises ==
    /\ spc \in {"idle", "done"}
    /\ spc = "done" =>
        /\ DOMAIN results = 1..Len(results)
        /\ ((\E i \in 1..Len(network) : network[i] = SEARCH_URL)
                /\ ~Answered(sin.search)) => results = <<>>

\* The direct attempt fails on three timeouts and the search request on
\* three 404 responses: six requests, and an empty list.
C30_Witness ==
    /\ spc = "done"
    /\ sin.query = "BWBR0001840"
    /\ sin.direct = <<Answer("Timeout", 0), Answer("Timeout", 0),
                      Answer("Timeout", 0)>>
    /\ sin.search = <<Answer("response", 404), Answer("response", 404),
                      Answer("response", 404)>>
    /\ network = Requests(BASE_URL \o "/BWBR0001840", 3) \o Requests(SEARCH_URL, 3)
    /\ results = <<>>

\* The ordered stem groups of the two inference functions.
InferGroups ==
    <<[stems |-> {"strafrecht", "strafvordering", "straffen"},
       domain |-> "Criminal Law"],
      [stems |-> {"burgerlijk", "vermogen", "verbintenis"},
       domain |-> "Civil Law"],
      [stems |-> {"grondwet", "constitutie"}, domain |-> "Constitutional Law"],
      [stems |-> {"belasting", "fiscaal"}, domain |-> "Tax Law"],
      [stems |-> {"bestuurs", "algemene wet"}, domain |-> "Administrative Law"]>>

DetermineGroups ==
    <<[stems |-> {"bestuursrecht", "vergunning", "besluit"},
       domain |-> "Administrative Law"],
      [stems |-> {"burgerlijk", "civiel", "contract"}, domain |-> "Civil Law"],
      [stems |-> {"strafrecht", "strafbaar", "misdrijf"},
       domain |-> "Criminal Law"],
      [stems |-> {"grondwet", "constitutioneel"},
       domain |-> "Constitutional Law"],
      [stems |-> {"arbeid", "werk", "loon"}, domain |-> "Employment Law"],
      [stems |-> {"discriminatie", "gelijke behandeling"},
       domain |-> "Equal Treatment Law"]>>

\* The domain of the first group one of whose stems occurs in the
\* lowercased title; the default when no group has one.
FirstMatch(groups, title, default) ==
    LET matching == {i \in 1..Len(groups) :
                        \E stem \in groups[i].stems :
                            Contains(Lower(title), stem)}
    IN  IF matching = {} THEN default ELSE groups[MinOf(matching)].domain

\* C23: each inference function returns the domain of the first group, in
\* its own order, that has a stem occurring in the lowercased title, and its
\* no-match default otherwise: "Other" for _infer_legal_domain, "Unknown"
\* for _determine_law_type.
C23_FirstMatchingGroupWins ==
    inferCall # None =>
        inferred =
            IF inferCall[1].fn = "_infer_legal_domain"
                THEN FirstMatch(InferGroups, inferCall[1].title, "Other")
                ELSE FirstMatch(DetermineGroups, inferCall[1].title, "Unknown")

\* A title with a criminal-law and a civil-law stem: _determine_law_type
\* checks the civil group first (_infer_legal_domain the criminal one).
C23_Witness ==
    /\ inferCall = Some([fn |-> "_determine_law_type",
                         title |-> "Wet strafrecht en burgerlijk"])
    /\ inferred = "Civil Law"

\* C22: for every situation and every network outcome analyze_situation
\* returns a result with relevant_categories, relevant_laws, advice and
\* references that has exactly one law for each expanded category, as many
\* references as relevant_laws, and in references[i] the name, citation,
\* identifier, domain, date and authority of the law relevant_laws[i] names.
C22_OneLawPerCategory ==
    apc = "done" =>
        LET cats == {analysis.relevant_categories[i] :
                        i \in 1..Len(analysis.relevant_categories)}
            refs == analysis.references
        IN  /\ {"relevant_categories", "relevant_laws", "advice", "references"}
                    \subseteq DOMAIN analysis
            /\ cats = _expand_categories(
                        _identify_relevant_categories(ain.situation)).expanded
            /\ Len(analysis.relevant_categories) = Cardinality(cats)
            /\ Len(analysis.relevant_laws) = Cardinality(cats)
            /\ Len(refs) = Len(analysis.relevant_laws)
            /\ Len(analysis.advice) >= 1
            /\ \A c \in cats :
                Cardinality({i \in 1..Len(refs) :
                                refs[i].bwb_id = law_categories[c]}) = 1
            /\ \A i \in 1..Len(refs) :
                /\ DOMAIN refs[i] = {"name", "citation", "bwb_id", "domain",
                                     "entry_force", "authority"}
                /\ refs[i].name = analysis.relevant_laws[i]
                /\ refs[i].bwb_id =
                        law_categories[analysis.relevant_categories[i]]

\* Every fetch fails: the three laws of a situation about work are the
\* lookup table's entries.
C22_Witness ==
    /\ apc = "done"
    /\ ain.situation = "Ik word gediscrimineerd op mijn werk"
    /\ \A c \in DOMAIN law_categories : AttemptFails(ain.responses[c])
    /\ analysis.relevant_categories = <<"discrimination", "employment", "civil">>
    /\ analysis.relevant_laws =
        <<"Algemene wet gelijke behandeling", "Wet op de arbeidsovereenkomst",
          "Burgerlijk Wetboek">>
    /\ analysis.references[2].bwb_id = "BWBR0009405"

\* A Document handed out earlier, as it is now: its metadata is the lookup
\* table's entry if that is the object it was built on.
CurrentDoc(h) ==
    IF h.alias = None THEN h.doc
    ELSE [h.doc EXCEPT !.metadata = tables.common_laws[h.alias[1]]]

\* C21: after any sequence of classify, expand, normalize and search calls
\* the keyword table, the relation table, the category-to-identifier table
\* and the lookup table are as they were built, every Document an earlier
\* call returned is as it was returned, and classifying the same text again
\* gives the same set.
C21_TablesAndDocumentsUnchanged ==
    /\ tables.category_keywords = category_keywords
    /\ tables.related_categories = related_categories
    /\ tables.law_categories = law_categories
    /\ tables.common_laws = common_laws
    /\ \A i \in 1..Len(held) : CurrentDoc(held[i]) = held[i].doc
    /\ \A i, j \in 1..Len(log) :
        (/\ log[i].op = "_identify_relevant_categories"
         /\ log[j].op = "_identify_relevant_categories"
         /\ log[i].arg = log[j].arg) => log[i].out = log[j].out

\* The Algemene wet bestuursrecht is normalized from markup that names
\* another law and, after a classification, again when the request fails:
\* the second Document is the lookup table's entry, the first still the
\* markup's.
C21_Witness ==
    /\ Len(log) = 3
    /\ log[2].op = "_identify_relevant_categories"
    /\ Len(held) = 2
    /\ held[1].doc.metadata.identification_number = "BWBR0005537"
    /\ held[1].doc.metadata.name_of_law = "Wet op de loonbelasting 1964"
    /\ held[2].doc.metadata.identification_number = "BWBR0005537"
    /\ held[2].doc.metadata.name_of_law = "Algemene wet bestuursrecht"

====
